---- MODULE Spec2Model ----
(***************************************************************************)
(* A model of the fastlaw statute ingestion scripts:                       *)
(*   src/parse_cga_to_sqlite.py  (CGA HTML -> SQLite -> import SQL / R2)   *)
(*   src/parse_usc_xml.py        (USC XML -> import SQL / R2)              *)
(*                                                                         *)
(* Python strings are modelled as sequences of one-character strings, so   *)
(* that slicing, regular-expression matching, case conversion and          *)
(* code-point comparison are computed rather than assumed.  Python's None  *)
(* is the value None below, which is no sequence of characters.            *)
(***************************************************************************)
EXTENDS Integers, Sequences, FiniteSets, TLC

(***************************************************************************)
(* Characters and strings                                                  *)
(***************************************************************************)

None == <<"None">>

DigitChars == <<"0", "1", "2", "3", "4", "5", "6", "7", "8", "9">>

UpperChars == <<"A", "B", "C", "D", "E", "F", "G", "H", "I", "J", "K", "L", "M",
                "N", "O", "P", "Q", "R", "S", "T", "U", "V", "W", "X", "Y", "Z">>

LowerChars == <<"a", "b", "c", "d", "e", "f", "g", "h", "i", "j", "k", "l", "m",
                "n", "o", "p", "q", "r", "s", "t", "u", "v", "w", "x", "y", "z">>

\* The other characters of the model's alphabet, each with its code point.
PunctChars == << <<"\t", 9>>, <<"\n", 10>>, <<"\r", 13>>, <<" ", 32>>, <<"&", 38>>, <<"(", 40>>,
                 <<")", 41>>, <<",", 44>>, <<"-", 45>>, <<".", 46>>, <<"/", 47>>,
                 <<"\\", 92>>, <<"_", 95>>, <<"|", 124>> >>

\* Three characters outside ASCII, each written as its code point: capital I
\* with dot above, small dotless i, and the combining dot above.
CapitalIDot == "U+0130"

DotlessI == "U+0131"

CombiningDot == "U+0307"

Range(s) == {s[i] : i \in 1..Len(s)}

IndexOf(s, c) == CHOOSE i \in 1..Len(s) : s[i] = c

Alphabet == Range(DigitChars) \cup Range(UpperChars) \cup Range(LowerChars)
            \cup {p[1] : p \in Range(PunctChars)}
            \cup {CapitalIDot, DotlessI, CombiningDot}

\* ord(c): the code point by which Python compares characters.
OrdTable == [c \in Alphabet |->
               IF c \in Range(DigitChars) THEN 47 + IndexOf(DigitChars, c)
               ELSE IF c \in Range(UpperChars) THEN 64 + IndexOf(UpperChars, c)
               ELSE IF c \in Range(LowerChars) THEN 96 + IndexOf(LowerChars, c)
               ELSE IF c = CapitalIDot THEN 304
               ELSE IF c = DotlessI THEN 305
               ELSE IF c = CombiningDot THEN 775
               ELSE (CHOOSE p \in Range(PunctChars) : p[1] = c)[2]]

Ord(c) == OrdTable[c]

IsDigit(c) == c \in Range(DigitChars)

IsUpper(c) == c \in Range(UpperChars)

\* Python's \s and str.strip() whitespace, within the alphabet.
IsSpace(c) == c \in {" ", "\n", "\t", "\r"}

LowerChar(c) == IF IsUpper(c) THEN LowerChars[IndexOf(UpperChars, c)] ELSE c

\* The upper case of the dotless i is the ASCII "I".
UpperChar(c) ==
  IF c \in Range(LowerChars) THEN UpperChars[IndexOf(LowerChars, c)]
  ELSE IF c = DotlessI THEN "I"
  ELSE c

\* str.lower() of a string holding the capital I with dot above, whose lower
\* case is the two characters "i" and the combining dot.
RECURSIVE LowerWide(_)
LowerWide(s) ==
  IF s = <<>> THEN <<>>
  ELSE (IF s[1] = CapitalIDot THEN <<"i", CombiningDot>> ELSE <<LowerChar(s[1])>>)
       \o LowerWide(Tail(s))

\* str.lower() / str.upper()
Lower(s) ==
  IF \A i \in 1..Len(s) : s[i] # CapitalIDot
  THEN [i \in 1..Len(s) |-> LowerChar(s[i])]
  ELSE LowerWide(s)

Upper(s) == [i \in 1..Len(s) |-> UpperChar(s[i])]

\* Python truthiness of an optional string: neither None nor "".
Truthy(v) == v # None /\ v # <<>>

\* Python's `a or b` on optional strings.
Or(a, b) == IF Truthy(a) THEN a ELSE b

\* s[i:] with a 1-based first index.
From(s, i) == SubSeq(s, i, Len(s))

StartsWith(s, p) == Len(s) >= Len(p) /\ SubSeq(s, 1, Len(p)) = p

\* The number of leading characters of s that satisfy IsSpace.
RECURSIVE LeadingSpaces(_)
LeadingSpaces(s) ==
  IF s # <<>> /\ IsSpace(Head(s)) THEN 1 + LeadingSpaces(Tail(s)) ELSE 0

RECURSIVE TrailingSpaces(_)
TrailingSpaces(s) ==
  IF s # <<>> /\ IsSpace(s[Len(s)])
  THEN 1 + TrailingSpaces(SubSeq(s, 1, Len(s) - 1)) ELSE 0

\* str.strip()
Strip(s) ==
  LET Cut(a) == IF a = Len(s) THEN <<>>
                ELSE SubSeq(s, a + 1, Len(s) - TrailingSpaces(s))
  IN  Cut(LeadingSpaces(s))

\* str.find(c) + 1 for a single character: the first index of c in s, 0 if none.
FindChar(s, c) ==
  IF \E i \in 1..Len(s) : s[i] = c
  THEN CHOOSE i \in 1..Len(s) : s[i] = c /\ \A j \in 1..(i - 1) : s[j] # c
  ELSE 0

Contains(s, c) == FindChar(s, c) > 0

\* str.replace(pat, ""): every non-overlapping occurrence, left to right.
RECURSIVE RemoveAll(_, _)
RemoveAll(s, pat) ==
  IF s = <<>> THEN <<>>
  ELSE IF StartsWith(s, pat) THEN RemoveAll(From(s, Len(pat) + 1), pat)
  ELSE <<Head(s)>> \o RemoveAll(Tail(s), pat)

\* s.split(c, 1)[0]
SplitFirst(s, c) ==
  LET Cut(i) == IF i > 0 THEN SubSeq(s, 1, i - 1) ELSE s
  IN  Cut(FindChar(s, c))

\* Python's < on strings: lexicographic by code point.
RECURSIVE StrLess(_, _)
StrLess(a, b) ==
  IF b = <<>> THEN FALSE
  ELSE IF a = <<>> THEN TRUE
  ELSE IF Head(a) = Head(b) THEN StrLess(Tail(a), Tail(b))
  ELSE Ord(Head(a)) < Ord(Head(b))

\* int(s) for a string of digits.
RECURSIVE DigitsToInt(_)
DigitsToInt(s) ==
  IF s = <<>> THEN 0
  ELSE 10 * DigitsToInt(SubSeq(s, 1, Len(s) - 1)) + (Ord(s[Len(s)]) - 48)

\* str.isdigit()
IsDigitStr(s) == s # <<>> /\ \A i \in 1..Len(s) : IsDigit(s[i])

\* The length of the longest prefix of s whose characters all satisfy IsDigit.
RECURSIVE DigitRun(_)
DigitRun(s) == IF s # <<>> /\ IsDigit(Head(s)) THEN 1 + DigitRun(Tail(s)) ELSE 0

\* str.zfill(width) on a string of digits.
RECURSIVE ZFill(_, _)
ZFill(s, width) == IF Len(s) >= width THEN s ELSE ZFill(<<"0">> \o s, width)

(***************************************************************************)
(* Label / identifier parser (parse_cga_to_sqlite.py)                      *)
(***************************************************************************)

NoMatch == [ok |-> FALSE]

\* s with its leading whitespace run removed.
LStrip(s) == From(s, LeadingSpaces(s) + 1)

\* The tail (.*)$ of SECTION_LABEL_RE on t, what follows \.\s*: the rest, which
\* may hold no line break except as the last character.
LabelTail(g1, g2, t) ==
  LET AtBreak(nl) ==
        IF nl # 0 /\ nl # Len(t) THEN NoMatch
        ELSE [ok |-> TRUE, g1 |-> g1, g2 |-> g2,
              g3 |-> IF nl = 0 THEN t ELSE SubSeq(t, 1, nl - 1)]
  IN  AtBreak(FindChar(t, "\n"))

\* The part \s+([^\.]+)\. of SECTION_LABEL_RE on rest, what follows "Secs?\.",
\* where rest2 is rest without its leading whitespace run: \s+ takes the whole
\* run; [^\.]+ runs to the first dot and, when that dot follows the run
\* directly, takes the run's last character by backtracking.
LabelNumber(g1, rest, rest2) ==
  LET w == Len(rest) - Len(rest2)
      AtDot(d) ==
        IF w = 0 \/ d = 0 THEN NoMatch
        ELSE IF d = 1 /\ w < 2 THEN NoMatch
        ELSE LabelTail(g1, IF d = 1 THEN <<rest[w]>> ELSE SubSeq(rest2, 1, d - 1),
                       LStrip(From(rest2, d + 1)))
  IN  AtDot(FindChar(rest2, "."))

\* SECTION_LABEL_RE.match(label): ^(Secs?)\.\s+([^\.]+)\.\s*(.*)$
SECTION_LABEL_RE(label) ==
  LET Prefixed(g1) ==
        LET Rest(rest) == LabelNumber(g1, rest, LStrip(rest))
        IN  Rest(From(label, Len(g1) + 2))
  IN  IF StartsWith(label, <<"S", "e", "c", "s", ".">>)
      THEN Prefixed(<<"S", "e", "c", "s">>)
      ELSE IF StartsWith(label, <<"S", "e", "c", ".">>)
      THEN Prefixed(<<"S", "e", "c">>)
      ELSE NoMatch

\* The range pattern without re.IGNORECASE: only a lowercase "to" is the
\* range word.
RangeTailExact(r1) ==
  LET AfterRun(r2) ==
        LET AfterTo(r3) ==
              LET AfterRun2(r4) ==
                    [w1 |-> Len(r1) - Len(r2),
                     to |-> Len(r2) >= 2 /\ SubSeq(r2, 1, 2) = <<"t", "o">>,
                     w2 |-> Len(r3) - Len(r4),
                     direct |-> r4 # <<>> /\ r4[1] # ",",
                     r3 |-> r3, r4 |-> r4]
              IN  AfterRun2(LStrip(r3))
        IN  AfterTo(From(r2, 3))
  IN  AfterRun(LStrip(r1))

\* What follows group 1 = s[1..i] in a match of ^(.+?)\s+to\s+([^,]+): r2 is
\* the rest after the first whitespace run, r3 what follows "to", r4 what
\* follows the second run.  Group 2 starts at r4, or at the last character of
\* the second run when r4 cannot start it.
RangeTail(r1) ==
  LET AfterRun(r2) ==
        LET AfterTo(r3) ==
              LET AfterRun2(r4) ==
                    [w1 |-> Len(r1) - Len(r2),
                     to |-> Len(r2) >= 2 /\ Lower(SubSeq(r2, 1, 2)) = <<"t", "o">>,
                     w2 |-> Len(r3) - Len(r4),
                     direct |-> r4 # <<>> /\ r4[1] # ",",
                     r3 |-> r3, r4 |-> r4]
              IN  AfterRun2(LStrip(r3))
        IN  AfterTo(From(r2, 3))
  IN  AfterRun(LStrip(r1))

\* Whether ^(.+?)\s+to\s+([^,]+) matches s with group 1 = s[1..i]: a whitespace
\* run, "to" in either case, a whitespace run, and one more character that is no
\* comma (the last character of the second run when nothing else follows it).
RangeMatchAt(s, i) ==
  LET Ok(m) == /\ \A j \in 1..i : s[j] # "\n"
               /\ m.w1 >= 1
               /\ m.to
               /\ m.w2 >= 1
               /\ (m.direct \/ m.w2 >= 2)
  IN  Ok(RangeTail(From(s, i + 1)))

\* SECTION_RANGE_RE.match(s), re.IGNORECASE: group 1 is lazy, so the shortest
\* prefix after which the rest matches; group 2 runs to the first comma.
SECTION_RANGE_RE(s) ==
  LET Found(cands) ==
        IF cands = {} THEN NoMatch
        ELSE LET At(i) ==
                   LET Groups(m) ==
                         [ok |-> TRUE, g1 |-> SubSeq(s, 1, i),
                          g2 |-> SplitFirst(IF m.direct THEN m.r4
                                            ELSE From(m.r3, m.w2), ",")]
                   IN  Groups(RangeTail(From(s, i + 1)))
             IN  At(CHOOSE k \in cands : \A j \in cands : k <= j)
  IN  Found({i \in 1..Len(s) : RangeMatchAt(s, i)})

NoLabel == [number |-> None, title |-> None, range_start |-> None, range_end |-> None]

\* parse_label with the plural branch assigning range_start alone.
parse_label_start_only(label) ==
  LET Matched(match) ==
        IF ~match.ok THEN NoLabel
        ELSE LET Fields(number, title) ==
                   LET Ranged(range_match) ==
                         [number |-> number, title |-> title,
                          range_start |-> IF range_match.ok
                                          THEN Strip(range_match.g1) ELSE None,
                          range_end |-> None]
                   IN  IF StartsWith(Lower(match.g1), <<"s", "e", "c", "s">>)
                       THEN Ranged(SECTION_RANGE_RE(number))
                       ELSE [number |-> number, title |-> title,
                             range_start |-> number, range_end |-> number]
             IN  Fields(Strip(match.g2), Or(Strip(match.g3), None))
  IN  IF ~Truthy(label) THEN NoLabel ELSE Matched(SECTION_LABEL_RE(label))

parse_label(label) ==
  LET Matched(match) ==
        IF ~match.ok THEN NoLabel
        ELSE LET Fields(number, title) ==
                   LET Ranged(range_match) ==
                         IF range_match.ok
                         THEN [number |-> number, title |-> title,
                               range_start |-> Strip(range_match.g1),
                               range_end |-> Strip(range_match.g2)]
                         ELSE [number |-> number, title |-> title,
                               range_start |-> None, range_end |-> None]
                   IN  IF StartsWith(Lower(match.g1), <<"s", "e", "c", "s">>)
                       THEN Ranged(SECTION_RANGE_RE(number))
                       ELSE [number |-> number, title |-> title,
                             range_start |-> number, range_end |-> number]
             IN  Fields(Strip(match.g2), Or(Strip(match.g3), None))
  IN  IF ~Truthy(label) THEN NoLabel ELSE Matched(SECTION_LABEL_RE(label))

\* section_id.replace("secs_", "").replace("sec_", "")
CleanId(section_id) ==
  RemoveAll(RemoveAll(section_id, <<"s", "e", "c", "s", "_">>), <<"s", "e", "c", "_">>)

extract_title_id(section_id, section_number, range_start) ==
  LET Pick(candidate, cleaned_id) ==
        IF ~Truthy(candidate) THEN None
        ELSE IF ~Contains(candidate, "-")
             THEN Strip(IF Contains(cleaned_id, "-")
                        THEN SplitFirst(cleaned_id, "-") ELSE candidate)
        ELSE Strip(SplitFirst(candidate, "-"))
  IN  Pick(Or(range_start, section_number), CleanId(section_id))

(***************************************************************************)
(* Sort keys                                                               *)
(***************************************************************************)

\* re.split(r"(\\d+)", value): the pattern is a backslash followed by one or
\* more letters d; the captured separators are kept between the pieces.
RECURSIVE SplitBackslashD(_, _)
SplitBackslashD(value, acc) ==
  IF value = <<>> THEN <<acc>>
  ELSE IF Len(value) >= 2 /\ value[1] = "\\" /\ value[2] = "d"
       THEN LET ds == CHOOSE n \in 1..(Len(value) - 1) :
                        /\ \A j \in 2..(n + 1) : value[j] = "d"
                        /\ (n + 2 <= Len(value) => value[n + 2] # "d")
            IN  <<acc, SubSeq(value, 1, ds + 1)>>
                \o SplitBackslashD(From(value, ds + 2), <<>>)
       ELSE SplitBackslashD(Tail(value), Append(acc, Head(value)))

\* One element of a natural key: (0, int(part)) or (1, part.lower()).
KeyPart(part) ==
  IF IsDigitStr(part) THEN [k |-> 0, n |-> DigitsToInt(part), s |-> <<>>]
  ELSE [k |-> 1, n |-> 0, s |-> Lower(part)]

_natural_key(value) ==
  LET parts == SplitBackslashD(value, <<>>)
  IN  [i \in 1..Len(parts) |-> KeyPart(parts[i])]

\* Python's < on two key elements (tuples).
PartLess(a, b) ==
  IF a.k # b.k THEN a.k < b.k
  ELSE IF a.k = 0 THEN a.n < b.n
  ELSE StrLess(a.s, b.s)

\* Python's < on two natural keys (lists of tuples).
RECURSIVE KeyLess(_, _)
KeyLess(a, b) ==
  IF b = <<>> THEN FALSE
  ELSE IF a = <<>> THEN TRUE
  ELSE IF Head(a) = Head(b) THEN KeyLess(Tail(a), Tail(b))
  ELSE PartLess(Head(a), Head(b))

\* re.sub(r"\d+", pad, s): every maximal digit run zero-filled to width.
RECURSIVE PadDigitRuns(_, _)
PadDigitRuns(s, width) ==
  IF s = <<>> THEN <<>>
  ELSE IF IsDigit(Head(s))
       THEN LET n == DigitRun(s)
            IN  ZFill(SubSeq(s, 1, n), width) \o PadDigitRuns(From(s, n + 1), width)
       ELSE <<Head(s)>> \o PadDigitRuns(Tail(s), width)

PaddedKeyWidth == 6

_padded_key(value) ==
  IF ~Truthy(value) THEN <<>> ELSE PadDigitRuns(Lower(value), PaddedKeyWidth)


(***************************************************************************)
(* Block extractor: SectionTextExtractor (parse_cga_to_sqlite.py)          *)
(*                                                                         *)
(* The parser's input is the sequence of events html.parser delivers: a    *)
(* start tag with the classes of its class attribute, an end tag, or one   *)
(* run of text.  Tag and class names are atoms; text is a string.          *)
(***************************************************************************)

Targets == {"body", "history_short", "history_long", "citations", "see_also"}

block_tags == {"p", "div", "table", "tr", "ul", "ol", "li",
               "h1", "h2", "h3", "h4", "h5", "h6"}

StartTag(tag, cls, id) == [t |-> "start", tag |-> tag, cls |-> cls, id |-> id, text |-> <<>>]

EndTag(tag) == [t |-> "end", tag |-> tag, cls |-> {}, id |-> <<>>, text |-> <<>>]

Data(text) == [t |-> "data", tag |-> "", cls |-> {}, id |-> <<>>, text |-> text]

\* SectionTextExtractor.__init__
NewExtractor ==
  [parts |-> [x \in Targets |-> <<>>],
   current_target |-> "body",
   target_stack |-> <<>>,
   in_script |-> FALSE,
   in_style |-> FALSE,
   in_label |-> FALSE,
   ignore_depth |-> 0,
   in_row |-> FALSE,
   row_cells |-> 0,
   stop_parsing |-> FALSE]

EndsWithNewline(str) == str # <<>> /\ str[Len(str)] = "\n"

\* SectionTextExtractor._newline
ExtNewline(self, target) ==
  LET buf == self.parts[target]
  IN  IF buf = <<>> \/ ~EndsWithNewline(buf[Len(buf)])
      THEN [self EXCEPT !.parts[target] = Append(buf, <<"\n">>)]
      ELSE self

\* SectionTextExtractor._classify_target; "" stands for None.
ClassifyTarget(cls) ==
  IF {"source", "source-first"} \cap cls # {} THEN "history_short"
  ELSE IF {"history", "history-first"} \cap cls # {} THEN "history_long"
  ELSE IF {"annotation", "annotation-first"} \cap cls # {} THEN "citations"
  ELSE IF {"cross-ref", "cross-ref-first"} \cap cls # {} THEN "see_also"
  ELSE ""

\* The part after the early returns with the test of line 90 reduced to
\* `if new_target:`: a classified element is pushed even when its block is
\* already the current one.
StartTagTailAlwaysPush(self, tag, cls) ==
  LET new_target == ClassifyTarget(cls)
      s1 == IF new_target # ""
            THEN [self EXCEPT
                    !.target_stack = Append(@, <<tag, self.current_target>>),
                    !.current_target = new_target]
            ELSE self
      s2 == IF tag = "tr" THEN [s1 EXCEPT !.in_row = TRUE, !.row_cells = 0] ELSE s1
      s3 == IF tag \in {"td", "th"} /\ s2.in_row
            THEN [s2 EXCEPT
                    !.parts[s2.current_target] =
                       IF s2.row_cells > 0 THEN Append(@, <<" ", "|", " ">>) ELSE @,
                    !.row_cells = @ + 1]
            ELSE s2
  IN  IF tag \in block_tags THEN ExtNewline(s3, s3.current_target) ELSE s3

\* handle_starttag, lines 89-104: the part after the early returns.
StartTagTail(self, tag, cls) ==
  LET new_target == ClassifyTarget(cls)
      s1 == IF new_target # "" /\ new_target # self.current_target
            THEN [self EXCEPT
                    !.target_stack = Append(@, <<tag, self.current_target>>),
                    !.current_target = new_target]
            ELSE self
      s2 == IF tag = "tr" THEN [s1 EXCEPT !.in_row = TRUE, !.row_cells = 0] ELSE s1
      s3 == IF tag \in {"td", "th"} /\ s2.in_row
            THEN [s2 EXCEPT
                    !.parts[s2.current_target] =
                       IF s2.row_cells > 0 THEN Append(@, <<" ", "|", " ">>) ELSE @,
                    !.row_cells = @ + 1]
            ELSE s2
  IN  IF tag \in block_tags THEN ExtNewline(s3, s3.current_target) ELSE s3

\* handle_starttag with the navigation table only opening an ignored region:
\* the depth counter is set and stop_parsing is not.
handle_starttag_depth_only(self, tag, cls) ==
  IF self.stop_parsing THEN self
  ELSE IF self.ignore_depth > 0 THEN [self EXCEPT !.ignore_depth = @ + 1]
  ELSE IF tag = "script" THEN [self EXCEPT !.in_script = TRUE]
  ELSE IF tag = "style" THEN [self EXCEPT !.in_style = TRUE]
  ELSE IF tag = "span" /\ "catchln" \in cls THEN [self EXCEPT !.in_label = TRUE]
  ELSE IF tag = "table" /\ "nav_tbl" \in cls THEN [self EXCEPT !.ignore_depth = 1]
  ELSE IF tag \in {"br", "hr"} THEN ExtNewline(self, self.current_target)
  ELSE StartTagTail(self, tag, cls)

handle_starttag(self, tag, cls) ==
  IF self.stop_parsing THEN self
  ELSE IF self.ignore_depth > 0 THEN [self EXCEPT !.ignore_depth = @ + 1]
  ELSE IF tag = "script" THEN [self EXCEPT !.in_script = TRUE]
  ELSE IF tag = "style" THEN [self EXCEPT !.in_style = TRUE]
  ELSE IF tag = "span" /\ "catchln" \in cls THEN [self EXCEPT !.in_label = TRUE]
  ELSE IF tag = "table" /\ "nav_tbl" \in cls
       THEN [self EXCEPT !.ignore_depth = 1, !.stop_parsing = TRUE]
  ELSE IF tag \in {"br", "hr"} THEN ExtNewline(self, self.current_target)
  ELSE StartTagTail(self, tag, cls)

\* handle_endtag that restores the saved target on any end tag while the
\* stack is not empty, without comparing the tag with the one recorded.
handle_endtag_any_tag(self, tag) ==
  IF self.stop_parsing THEN self
  ELSE IF self.ignore_depth > 0 THEN [self EXCEPT !.ignore_depth = @ - 1]
  ELSE IF tag = "script" THEN [self EXCEPT !.in_script = FALSE]
  ELSE IF tag = "style" THEN [self EXCEPT !.in_style = FALSE]
  ELSE IF tag = "span" /\ self.in_label THEN [self EXCEPT !.in_label = FALSE]
  ELSE IF tag = "tr"
       THEN ExtNewline([self EXCEPT !.in_row = FALSE], self.current_target)
  ELSE LET n  == Len(self.target_stack)
           s1 == IF n > 0
                 THEN [self EXCEPT
                         !.target_stack = SubSeq(@, 1, n - 1),
                         !.current_target = self.target_stack[n][2]]
                 ELSE self
       IN  IF tag \in block_tags THEN ExtNewline(s1, s1.current_target) ELSE s1

handle_endtag(self, tag) ==
  IF self.stop_parsing THEN self
  ELSE IF self.ignore_depth > 0 THEN [self EXCEPT !.ignore_depth = @ - 1]
  ELSE IF tag = "script" THEN [self EXCEPT !.in_script = FALSE]
  ELSE IF tag = "style" THEN [self EXCEPT !.in_style = FALSE]
  ELSE IF tag = "span" /\ self.in_label THEN [self EXCEPT !.in_label = FALSE]
  ELSE IF tag = "tr"
       THEN ExtNewline([self EXCEPT !.in_row = FALSE], self.current_target)
  ELSE LET n  == Len(self.target_stack)
           s1 == IF n > 0 /\ self.target_stack[n][1] = tag
                 THEN [self EXCEPT
                         !.target_stack = SubSeq(@, 1, n - 1),
                         !.current_target = self.target_stack[n][2]]
                 ELSE self
       IN  IF tag \in block_tags THEN ExtNewline(s1, s1.current_target) ELSE s1

handle_data(self, data) ==
  IF self.stop_parsing THEN self
  ELSE IF self.in_script \/ self.in_style \/ self.ignore_depth > 0 \/ self.in_label
       THEN self
  ELSE [self EXCEPT !.parts[self.current_target] = Append(@, data)]

\* One event of HTMLParser.feed, dispatched to its handler.
HandleEvent(self, ev) ==
  IF ev.t = "start" THEN handle_starttag(self, ev.tag, ev.cls)
  ELSE IF ev.t = "end" THEN handle_endtag(self, ev.tag)
  ELSE handle_data(self, ev.text)

\* HTMLParser.feed over a whole fragment.
RECURSIVE Feed(_, _)
Feed(self, events) ==
  IF events = <<>> THEN self ELSE Feed(HandleEvent(self, Head(events)), Tail(events))

\* "".join(list of strings)
RECURSIVE Concat(_)
Concat(strs) == IF strs = <<>> THEN <<>> ELSE Head(strs) \o Concat(Tail(strs))

\* sep.join(list of strings)
RECURSIVE Join(_, _)
Join(strs, sep) ==
  IF strs = <<>> THEN <<>>
  ELSE IF Len(strs) = 1 THEN strs[1]
  ELSE strs[1] \o sep \o Join(Tail(strs), sep)

\* The position of the first line break of s, 0 when it has none.
FirstBreak(s) ==
  IF \E i \in 1..Len(s) : s[i] \in {"\n", "\r"}
  THEN CHOOSE i \in 1..Len(s) :
         /\ s[i] \in {"\n", "\r"}
         /\ \A j \in 1..(i - 1) : s[j] \notin {"\n", "\r"}
  ELSE 0

\* str.splitlines(), for the line breaks "\n", "\r" and "\r\n".
RECURSIVE SplitLines(_)
SplitLines(raw) ==
  LET Cut(br) ==
        IF br = 0 THEN <<raw>>
        ELSE <<SubSeq(raw, 1, br - 1)>>
             \o SplitLines(From(raw, IF raw[br] = "\r" /\ br < Len(raw) /\ raw[br + 1] = "\n"
                                     THEN br + 2 ELSE br + 1))
  IN  IF raw = <<>> THEN <<>> ELSE Cut(FirstBreak(raw))

\* line.replace("  ", " "): each pair of adjacent whitespace characters, from
\* the left, becomes one space.
RECURSIVE CollapseSpacesOnce(_)
CollapseSpacesOnce(line) ==
  IF line = <<>> THEN <<>>
  ELSE IF Len(line) >= 2 /\ IsSpace(line[1]) /\ IsSpace(line[2])
       THEN <<" ">> \o CollapseSpacesOnce(From(line, 3))
  ELSE <<line[1]>> \o CollapseSpacesOnce(Tail(line))

\* " ".join(line.split())
RECURSIVE CollapseSpaces(_)
CollapseSpaces(line) ==
  LET str == Strip(line)
  IN  IF str = <<>> THEN <<>>
      ELSE IF Len(str) >= 2 /\ IsSpace(str[2])
           THEN <<str[1], " ">> \o CollapseSpaces(From(str, 2))
      ELSE <<str[1]>> \o CollapseSpaces(Tail(str))

\* get_text, lines 157-166: consecutive blank lines collapse to one.
RECURSIVE CollapseBlank(_, _)
CollapseBlank(lines, blank) ==
  IF lines = <<>> THEN <<>>
  ELSE IF Head(lines) = <<>>
       THEN (IF blank THEN <<>> ELSE << <<>> >>) \o CollapseBlank(Tail(lines), TRUE)
       ELSE <<Head(lines)>> \o CollapseBlank(Tail(lines), FALSE)

\* get_text applied to the raw joined text of one block.
NormalizeText(raw) ==
  LET split == SplitLines(raw)
      lines == [i \in 1..Len(split) |-> CollapseSpaces(split[i])]
  IN  Strip(Join(CollapseBlank(lines, FALSE), <<"\n">>))

get_text(self, target) == NormalizeText(Concat(self.parts[target]))

extract_text_blocks(section_html) ==
  LET parser == Feed(NewExtractor, section_html)
  IN  [x \in Targets |-> get_text(parser, x)]


(***************************************************************************)
(* Trailing-heading trimming and the HTML section splitter                 *)
(***************************************************************************)

HeadingKeywords == {<<"P", "A", "R", "T">>, <<"S", "U", "B", "P", "A", "R", "T">>,
                    <<"A", "R", "T", "I", "C", "L", "E">>,
                    <<"C", "H", "A", "P", "T", "E", "R">>}

RomanChars == {"I", "V", "X", "L", "C"}

\* heading_re: ^(?:PART|SUBPART|ARTICLE|CHAPTER)\s+[IVXLC\d]+$
heading_re(line) ==
  \E kw \in HeadingKeywords :
    /\ StartsWith(line, kw)
    /\ LET rest == From(line, Len(kw) + 1)
           w    == LeadingSpaces(rest)
           num  == From(rest, w + 1)
       IN  /\ w >= 1
           /\ num # <<>>
           /\ \A i \in 1..Len(num) : num[i] \in RomanChars \/ IsDigit(num[i])

\* caps_re: ^[A-Z][A-Z\s\-,&]+$
caps_re(line) ==
  /\ Len(line) >= 2
  /\ IsUpper(line[1])
  /\ \A i \in 2..Len(line) :
       IsUpper(line[i]) \/ IsSpace(line[i]) \/ line[i] \in {"-", ",", "&"}

\* paren_heading_re: ^\(([A-Z]|[IVXLC]+)\)$
paren_heading_re(line) ==
  /\ Len(line) >= 3
  /\ line[1] = "(" /\ line[Len(line)] = ")"
  /\ LET inner == SubSeq(line, 2, Len(line) - 1)
     IN  \/ (Len(inner) = 1 /\ IsUpper(inner[1]))
         \/ \A i \in 1..Len(inner) : inner[i] \in RomanChars

CapsHeadingMaxLen == 80

IsHeadingLine(line) ==
  \/ heading_re(line)
  \/ (caps_re(line) /\ Len(line) <= CapsHeadingMaxLen)
  \/ paren_heading_re(line)

\* while lines and lines[-1] == "": lines.pop()
RECURSIVE PopBlank(_)
PopBlank(lines) ==
  IF lines # <<>> /\ lines[Len(lines)] = <<>>
  THEN PopBlank(SubSeq(lines, 1, Len(lines) - 1)) ELSE lines

\* The loop body run at most once: one trailing heading and the blank lines
\* before it.
PopHeadingsOnce(lines) ==
  IF lines # <<>> /\ IsHeadingLine(Strip(lines[Len(lines)]))
  THEN PopBlank(SubSeq(lines, 1, Len(lines) - 1))
  ELSE lines

\* The while loop of trim_trailing_headings, lines 275-292.
RECURSIVE PopHeadings(_)
PopHeadings(lines) ==
  IF lines # <<>> /\ IsHeadingLine(Strip(lines[Len(lines)]))
  THEN PopHeadings(PopBlank(SubSeq(lines, 1, Len(lines) - 1)))
  ELSE lines

trim_trailing_headings(body_text) ==
  IF ~Truthy(body_text) THEN body_text
  ELSE Strip(Join(PopHeadings(PopBlank(SplitLines(body_text))), <<"\n">>))

\* SECTION_START_RE matches a span start tag whose class attribute is exactly
\* "catchln" and which carries a non-empty id.
IsSectionStart(tok) ==
  tok.t = "start" /\ tok.tag = "span" /\ tok.cls = {"catchln"} /\ tok.id # <<>>

\* The positions of the tokens SECTION_START_RE matches, in document order.
RECURSIVE MarkersFrom(_, _)
MarkersFrom(html_text, i) ==
  IF i > Len(html_text) THEN <<>>
  ELSE (IF IsSectionStart(html_text[i]) THEN <<i>> ELSE <<>>)
       \o MarkersFrom(html_text, i + 1)

\* re.sub(r"<[^>]+>", "", label_html): the text of the tokens, tags dropped.
RECURSIVE TextOf(_)
TextOf(tokens) ==
  IF tokens = <<>> THEN <<>>
  ELSE (IF Head(tokens).t = "data" THEN Head(tokens).text ELSE <<>>)
       \o TextOf(Tail(tokens))

\* extract_label: the text between the first catchln span start tag carrying
\* section_id (compared ignoring case) and the first </span> after it.
extract_label(section_html, section_id) ==
  LET IsOpen(i) == /\ IsSectionStart(section_html[i])
                   /\ Lower(section_html[i].id) = Lower(section_id)
      IsClose(j) == section_html[j].t = "end" /\ section_html[j].tag = "span"
      Found(i)   == IsOpen(i) /\ \E j \in (i + 1)..Len(section_html) : IsClose(j)
  IN  IF \E i \in 1..Len(section_html) : Found(i)
      THEN LET i == CHOOSE k \in 1..Len(section_html) :
                      Found(k) /\ \A m \in 1..(k - 1) : ~Found(m)
               j == CHOOSE k \in (i + 1)..Len(section_html) :
                      IsClose(k) /\ \A m \in (i + 1)..(k - 1) : ~IsClose(m)
           IN  Strip(TextOf(SubSeq(section_html, i + 1, j - 1)))
      ELSE None

\* The body of the loop of extract_sections_from_html for one fragment.
ExtractSection(section_html, section_id) ==
  LET Build(label, text_blocks) ==
        LET Fields(parsed) ==
              [section_id          |-> section_id,
               title_id            |-> extract_title_id(section_id, parsed.number,
                                                        parsed.range_start),
               section_number      |-> parsed.number,
               section_title       |-> parsed.title,
               section_label       |-> label,
               section_range_start |-> parsed.range_start,
               section_range_end   |-> parsed.range_end,
               body                |-> trim_trailing_headings(text_blocks["body"]),
               history_short       |-> text_blocks["history_short"],
               history_long        |-> text_blocks["history_long"],
               citations           |-> text_blocks["citations"],
               see_also            |-> text_blocks["see_also"]]
        IN  Fields(parse_label(label))
  IN  Build(Or(extract_label(section_html, section_id), section_id),
            extract_text_blocks(section_html))

\* html_text[start:] for the index-th marker: the slice is not ended at the
\* next marker.
FragmentToEnd(html_text, matches, index) ==
  SubSeq(html_text, matches[index], Len(html_text))

\* html_text[start:end] for the index-th marker.
Fragment(html_text, matches, index) ==
  SubSeq(html_text, matches[index],
         IF index + 1 <= Len(matches) THEN matches[index + 1] - 1 ELSE Len(html_text))

\* section_html of every iteration of the loop, lines 299-303.
SectionFragments(html_text) ==
  LET matches == MarkersFrom(html_text, 1)
  IN  [index \in 1..Len(matches) |-> Fragment(html_text, matches, index)]

\* A splitter that leaves out the sections whose label does not parse.
extract_sections_strict(html_text) ==
  LET matches == MarkersFrom(html_text, 1)
      all == [index \in 1..Len(matches) |->
                ExtractSection(Fragment(html_text, matches, index),
                               html_text[matches[index]].id)]
  IN  SelectSeq(all, LAMBDA s : s.section_number # None)

extract_sections_from_html(html_text) ==
  LET matches == MarkersFrom(html_text, 1)
  IN  [index \in 1..Len(matches) |->
         ExtractSection(Fragment(html_text, matches, index),
                        html_text[matches[index]].id)]


(***************************************************************************)
(* Designators                                                             *)
(***************************************************************************)

\* The characters [a-z] matches under re.IGNORECASE: the ASCII letters and,
\* in a str pattern, the letters whose case folding is an ASCII letter.
IgnoreCaseLetters ==
  Range(LowerChars) \cup Range(UpperChars) \cup {CapitalIDot, DotlessI}

\* re.match(r"^0*([0-9]+)([a-z]*)$", value, re.IGNORECASE): leading zeros are
\* dropped but one digit is kept, letters follow to the end, and $ also matches
\* before one final line break.
DesignatorMatch(value) ==
  LET Line(v) ==
        LET Digits(n) ==
              LET Groups(suffix, zeros) ==
                    IF n >= 1 /\ \A i \in 1..Len(suffix) :
                                   suffix[i] \in IgnoreCaseLetters
                    THEN [ok |-> TRUE,
                          g1 |-> SubSeq(v, (IF zeros = n THEN n - 1 ELSE zeros) + 1, n),
                          g2 |-> suffix]
                    ELSE NoMatch
              IN  Groups(From(v, n + 1),
                         CHOOSE z \in 0..n :
                           /\ \A i \in 1..z : v[i] = "0"
                           /\ (z < n => v[z + 1] # "0"))
        IN  Digits(DigitRun(v))
  IN  Line(IF EndsWithNewline(value) THEN SubSeq(value, 1, Len(value) - 1)
           ELSE value)

normalize_designator(value) ==
  LET Matched(match) ==
        IF ~match.ok THEN Lower(value) ELSE match.g1 \o Lower(match.g2)
  IN  IF ~Truthy(value) THEN value ELSE Matched(DesignatorMatch(value))

format_designator_display(value) ==
  LET Matched(match) ==
        IF ~match.ok THEN Upper(value) ELSE match.g1 \o Upper(match.g2)
  IN  IF ~Truthy(value) THEN value ELSE Matched(DesignatorMatch(value))

PaddedWidth == 4

format_designator_padded(value) ==
  LET Matched(match) ==
        IF ~match.ok THEN Lower(value)
        ELSE ZFill(match.g1, PaddedWidth) \o Lower(match.g2)
  IN  IF ~Truthy(value) THEN value ELSE Matched(DesignatorMatch(value))

(***************************************************************************)
(* The SQLite store (parse_cga_to_sqlite.py)                               *)
(*                                                                         *)
(* The sections table is the sequence of its rows in rowid order, the      *)
(* order in which a SELECT without ORDER BY returns them; the chapters and *)
(* titles tables are functions from their primary key.                     *)
(***************************************************************************)

\* A stable sort of seq by the strict order Less(a, b), as list.sort does.
\* x put into the sorted sequence behind every element not greater than it.
InsertSorted(sorted, x, Less(_, _)) ==
  LET k == CHOOSE j \in 0..Len(sorted) :
             /\ (j > 0 => ~Less(x, sorted[j]))
             /\ \A m \in (j + 1)..Len(sorted) : Less(x, sorted[m])
  IN  SubSeq(sorted, 1, k) \o <<x>> \o SubSeq(sorted, k + 1, Len(sorted))

StableSort(seq, Less(_, _)) ==
  LET RECURSIVE Sorted(_)
      Sorted(n) == IF n = 0 THEN <<>> ELSE InsertSorted(Sorted(n - 1), seq[n], Less)
  IN  Sorted(Len(seq))

\* The row ingest_sections builds for one extracted section, lines 412-434.
SectionRow(section, source_file, chapter_id) ==
  [section_id          |-> section.section_id,
   chapter_id          |-> chapter_id,
   title_id            |-> section.title_id,
   section_number      |-> section.section_number,
   section_title       |-> section.section_title,
   section_label       |-> section.section_label,
   section_range_start |-> section.section_range_start,
   section_range_end   |-> section.section_range_end,
   body                |-> section.body,
   history_short       |-> section.history_short,
   history_long        |-> section.history_long,
   citations           |-> section.citations,
   see_also            |-> section.see_also,
   prev_section_id     |-> None,
   next_section_id     |-> None,
   prev_section_label  |-> None,
   next_section_label  |-> None,
   source_file         |-> source_file]

\* An upsert that overwrites the content columns of the row holding the key
\* in place and leaves its link columns as they were.
InsertKeepingLinks(rows, row) ==
  IF \E i \in 1..Len(rows) : rows[i].section_id = row.section_id
  THEN [i \in 1..Len(rows) |->
          IF rows[i].section_id = row.section_id
          THEN [row EXCEPT !.prev_section_id    = rows[i].prev_section_id,
                           !.next_section_id    = rows[i].next_section_id,
                           !.prev_section_label = rows[i].prev_section_label,
                           !.next_section_label = rows[i].next_section_label]
          ELSE rows[i]]
  ELSE Append(rows, row)

\* INSERT OR REPLACE on the primary key section_id: the row holding the key,
\* if any, is deleted and the new row gets the next rowid.
InsertOrReplace(rows, row) ==
  Append(SelectSeq(rows, LAMBDA r : r.section_id # row.section_id), row)

\* executemany over the rows, in order.
RECURSIVE InsertAll(_, _)
InsertAll(rows, new) ==
  IF new = <<>> THEN rows
  ELSE InsertAll(InsertOrReplace(rows, Head(new)), Tail(new))

\* An ingest on a table without the key: every row is added, none replaced.
ingest_sections_appending(rows, sections_in, source_file, chapter_id) ==
  rows \o [i \in 1..Len(sections_in) |->
             SectionRow(sections_in[i], source_file, chapter_id)]

ingest_sections(rows, sections_in, source_file, chapter_id) ==
  InsertAll(rows, [i \in 1..Len(sections_in) |->
                     SectionRow(sections_in[i], source_file, chapter_id)])

\* A NULL in an INTEGER column.
NullInt == -1

\* The row INSERT OR REPLACE INTO chapters (chapter_id, chapter_title) leaves:
\* every other column NULL.
ChapterRow(chapter_title) ==
  [chapter_title      |-> chapter_title,
   title_id           |-> None,
   title_id_padded    |-> None,
   title_id_display   |-> None,
   chapter_id_padded  |-> None,
   chapter_id_display |-> None,
   section_count      |-> NullInt,
   section_start      |-> None,
   section_end        |-> None]

\* f with key k set to v, whether or not k is in its domain.
Put(f, k, v) == [x \in DOMAIN f \cup {k} |-> IF x = k THEN v ELSE f[x]]

ingest_chapter(chaps, chapter_id, chapter_title) ==
  IF ~Truthy(chapter_title) THEN chaps
  ELSE Put(chaps, chapter_id, ChapterRow(chapter_title))


(***************************************************************************)
(* Corpus linker: update_prev_next                                         *)
(***************************************************************************)

\* The rows of SELECT ... WHERE section_number IS NOT NULL.
LinkRows(rows) == SelectSeq(rows, LAMBDA r : r.section_number # None)

\* The value the sort key is derived from, lines 561-563.
SortValue(row) ==
  LET Raw(raw_id) ==
        LET Pick(sort_value) ==
              IF Contains(sort_value, "-") THEN sort_value ELSE raw_id
        IN  Pick(Or(Or(row.section_range_start, row.section_number), raw_id))
  IN  Raw(CleanId(row.section_id))

SortKey(row) == _padded_key(SortValue(row))

\* The tuple appended to by_title and by_chapter for one row, lines 564-568.
Item(row) ==
  [section_id |-> row.section_id, sort_key |-> SortKey(row),
   chapter_id |-> row.chapter_id, title_id |-> row.title_id]

\* The items of the rows, in row order.
RECURSIVE Items(_)
Items(rows) ==
  IF rows = <<>> THEN <<>> ELSE <<Item(Head(rows))>> \o Items(Tail(rows))

\* items.sort(key=lambda item: item[1])
KeyOrder(a, b) == StrLess(a.sort_key, b.sort_key)

\* by_title[title_id] after items.sort: only rows with a truthy title_id.
TitleOrdering(items, title_id) ==
  StableSort(SelectSeq(items, LAMBDA it : Truthy(it.title_id) /\ it.title_id = title_id),
             KeyOrder)

\* by_chapter[chapter_id] after items.sort.
ChapterOrdering(items, chapter_id) ==
  StableSort(SelectSeq(items, LAMBDA it : it.chapter_id = chapter_id), KeyOrder)

\* The position of the row with section_id in an ordering, 0 if it has none.
PositionIn(items, section_id) ==
  IF \E i \in 1..Len(items) : items[i].section_id = section_id
  THEN CHOOSE i \in 1..Len(items) : items[i].section_id = section_id
  ELSE 0

\* dict.get(section_id) on the prev_* maps built from an ordering.
PrevIn(items, section_id) ==
  LET index == PositionIn(items, section_id)
  IN  IF index > 1 THEN items[index - 1].section_id ELSE None

\* dict.get(section_id) on the next_* maps built from an ordering.
NextIn(items, section_id) ==
  LET index == PositionIn(items, section_id)
  IN  IF index > 0 /\ index + 1 <= Len(items) THEN items[index + 1].section_id
      ELSE None

\* A linker that takes the chapter-scope neighbour whatever the title scope
\* names.
FinalCandidateChapterOnly(chapter_candidate, title_candidate) ==
  chapter_candidate

\* A linker that drops the chapter-scope neighbour only when the title scope
\* names a different one, and keeps it when the title scope names none.
FinalCandidateUnlessOther(chapter_candidate, title_candidate) ==
  IF Truthy(chapter_candidate) /\ Truthy(title_candidate)
     /\ title_candidate # chapter_candidate
  THEN None ELSE chapter_candidate

\* Lines 600-603: the chapter-scope neighbour is kept only when the title
\* scope names the same neighbour.
FinalCandidate(chapter_candidate, title_candidate) ==
  IF Truthy(chapter_candidate) /\ title_candidate # chapter_candidate
  THEN None ELSE chapter_candidate

\* label_map.get(section_id)
LabelOf(rows, section_id) ==
  IF \E i \in 1..Len(rows) : rows[i].section_id = section_id
  THEN rows[CHOOSE i \in 1..Len(rows) : rows[i].section_id = section_id].section_label
  ELSE None

\* The UPDATE of one row with the test of line 600 left out: the chapter-scope
\* predecessor is kept whatever the title scope names, the successor is
\* tested as at line 602.
LinkedRowPrevUntested(rows, items, row) ==
  LET Update(prev_candidate, next_candidate) ==
        [row EXCEPT
           !.prev_section_id    = prev_candidate,
           !.next_section_id    = next_candidate,
           !.prev_section_label = IF Truthy(prev_candidate)
                                  THEN LabelOf(rows, prev_candidate) ELSE None,
           !.next_section_label = IF Truthy(next_candidate)
                                  THEN LabelOf(rows, next_candidate) ELSE None]
      Candidates(by_title, by_chapter) ==
        Update(PrevIn(by_chapter, row.section_id),
               FinalCandidate(NextIn(by_chapter, row.section_id),
                              NextIn(by_title, row.section_id)))
  IN  IF row.section_number = None THEN row
      ELSE Candidates(IF Truthy(row.title_id)
                      THEN TitleOrdering(items, row.title_id) ELSE <<>>,
                      ChapterOrdering(items, row.chapter_id))

\* The UPDATE of one row, lines 597-606; a row with a NULL section_number is
\* not among the updates.
LinkedRow(rows, items, row) ==
  LET Update(prev_candidate, next_candidate) ==
        [row EXCEPT
           !.prev_section_id    = prev_candidate,
           !.next_section_id    = next_candidate,
           !.prev_section_label = IF Truthy(prev_candidate)
                                  THEN LabelOf(rows, prev_candidate) ELSE None,
           !.next_section_label = IF Truthy(next_candidate)
                                  THEN LabelOf(rows, next_candidate) ELSE None]
      Candidates(by_title, by_chapter) ==
        Update(FinalCandidate(PrevIn(by_chapter, row.section_id),
                              PrevIn(by_title, row.section_id)),
               FinalCandidate(NextIn(by_chapter, row.section_id),
                              NextIn(by_title, row.section_id)))
  IN  IF row.section_number = None THEN row
      ELSE Candidates(IF Truthy(row.title_id)
                      THEN TitleOrdering(items, row.title_id) ELSE <<>>,
                      ChapterOrdering(items, row.chapter_id))

update_prev_next(rows) ==
  LET Link(items) == [i \in 1..Len(rows) |-> LinkedRow(rows, items, rows[i])]
  IN  Link(Items(LinkRows(rows)))

(***************************************************************************)
(* Rollup aggregator: update_chapter_summaries                             *)
(***************************************************************************)

Sep_to == <<" ", "t", "o", " ">>

\* The first index at which pat occurs in s, 0 if it does not.
FindSub(s, pat) ==
  IF \E i \in 1..Len(s) : StartsWith(From(s, i), pat)
  THEN CHOOSE i \in 1..Len(s) :
         StartsWith(From(s, i), pat) /\ \A j \in 1..(i - 1) : ~StartsWith(From(s, j), pat)
  ELSE 0

\* split_range: value.split(" to ") has two parts exactly when " to " occurs
\* once (occurrences counted without overlap, left to right).
split_range(value) ==
  LET At(i) ==
        LET Parts(after) ==
              IF i > 0 /\ FindSub(after, Sep_to) = 0
              THEN <<Strip(SubSeq(value, 1, i - 1)), Strip(after)>>
              ELSE <<value, value>>
        IN  Parts(From(value, i + Len(Sep_to)))
  IN  At(FindSub(value, Sep_to))

\* summaries.get(chapter_id, {...}) for a chapter first met at row, lines 639-652.
NewSummary(row) ==
  [title_id           |-> row.title_id,
   title_id_padded    |-> None,
   title_id_display   |-> None,
   chapter_id_padded  |-> None,
   chapter_id_display |-> None,
   section_count      |-> 0,
   section_start      |-> None,
   section_end        |-> None]

\* Lines 664-667: whether start replaces the running section_start.
TakesStart(start, current) ==
  ~Truthy(current) \/ KeyLess(_natural_key(start), _natural_key(current))

\* Lines 669-672: whether end replaces the running section_end.
TakesEnd(end, current) ==
  ~Truthy(current) \/ KeyLess(_natural_key(current), _natural_key(end))

\* One iteration of the loop at lines 634-673 on the chapter's summary.
SummaryStep(summary, row) ==
  LET fill_title   == Truthy(row.title_id) /\ ~Truthy(summary.title_id_padded)
      fill_chapter == ~Truthy(summary.chapter_id_padded)
      Step(start, end, chapter_raw) ==
        [title_id           |-> IF Truthy(row.title_id) /\ ~Truthy(summary.title_id)
                                THEN row.title_id ELSE summary.title_id,
         title_id_padded    |-> IF fill_title
                                THEN format_designator_padded(row.title_id)
                                ELSE summary.title_id_padded,
         title_id_display   |-> IF fill_title
                                THEN format_designator_display(row.title_id)
                                ELSE summary.title_id_display,
         chapter_id_padded  |-> IF fill_chapter
                                THEN format_designator_padded(chapter_raw)
                                ELSE summary.chapter_id_padded,
         chapter_id_display |-> IF fill_chapter
                                THEN format_designator_display(chapter_raw)
                                ELSE summary.chapter_id_display,
         section_count      |-> summary.section_count + 1,
         section_start      |-> IF Truthy(start)
                                   /\ TakesStart(start, summary.section_start)
                                THEN start ELSE summary.section_start,
         section_end        |-> IF Truthy(end) /\ TakesEnd(end, summary.section_end)
                                THEN end ELSE summary.section_end]
  IN  Step(split_range(Or(Or(row.section_range_start, row.section_number), <<>>))[1],
           split_range(Or(Or(row.section_range_end, row.section_number), <<>>))[2],
           RemoveAll(row.chapter_id, <<"c", "h", "a", "p", "_">>))

\* The rows of SELECT ... WHERE chapter_id IS NOT NULL AND chapter_id != ''
\* that belong to one chapter, in table order.
ChapterMembers(rows, chapter_id) ==
  SelectSeq(rows, LAMBDA r : Truthy(r.chapter_id) /\ r.chapter_id = chapter_id)

\* summaries[chapter_id] once the loop has seen every row.
ChapterSummary(members) ==
  LET RECURSIVE Fold(_)
      Fold(n) == IF n = 0 THEN NewSummary(members[1])
                 ELSE SummaryStep(Fold(n - 1), members[n])
  IN  Fold(Len(members))

\* The UPDATE chapters ... WHERE chapter_id = ?, lines 689-698: only chapters
\* that have a row, and only those with at least one member section.
update_chapter_summaries(rows, chaps) ==
  [c \in DOMAIN chaps |->
     LET Updated(members) ==
           IF members = <<>> THEN chaps[c]
           ELSE ChapterSummary(members) @@ [chapter_title |-> chaps[c].chapter_title]
     IN  Updated(ChapterMembers(rows, c))]


(***************************************************************************)
(* Serialization: dump_import_sql, dump_r2_content, dump_r2_level_indexes  *)
(***************************************************************************)

\* The literal prefixes and suffix of the generated ids and paths.
SlugSectionPrefix == <<"s", "t", "a", "t", "u", "t", "e", "s", "/", "c", "g", "s", "/", "s", "e", "c", "t", "i", "o", "n", "/">>

SlugTitlePrefix == <<"s", "t", "a", "t", "u", "t", "e", "s", "/", "c", "g", "s", "/", "t", "i", "t", "l", "e", "/">>

SlugChapterPrefix == <<"s", "t", "a", "t", "u", "t", "e", "s", "/", "c", "g", "s", "/", "c", "h", "a", "p", "t", "e", "r", "/">>

DocIdPrefix == <<"d", "o", "c", "_", "c", "g", "s", "_">>

ChapterLevelPrefix == <<"l", "v", "l", "_", "c", "g", "s", "_", "c", "h", "a", "p", "t", "e", "r", "_">>

JsonExt == <<".", "j", "s", "o", "n">>

\* str(value) inside an f-string: None prints as "None".
Fmt(value) == IF value = None THEN <<"N", "o", "n", "e">> ELSE value

\* re.sub(r"^secs?_", "", section_id)
StripSecPrefix(section_id) ==
  IF StartsWith(section_id, <<"s", "e", "c", "s", "_">>) THEN From(section_id, 6)
  ELSE IF StartsWith(section_id, <<"s", "e", "c", "_">>) THEN From(section_id, 5)
  ELSE section_id

\* normalized_number, lines 821 and 878.
NormalizedNumber(row) == Or(row.section_number, StripSecPrefix(row.section_id))

\* derived_title_id, lines 822 and 879.
DerivedTitleId(row) == Or(row.title_id, SplitFirst(NormalizedNumber(row), "-"))

_section_slug(title_id, section_number) ==
  LET prefix == title_id \o <<"-">>
      suffix == IF StartsWith(section_number, prefix)
                THEN From(section_number, Len(prefix) + 1) ELSE section_number
  IN  SlugSectionPrefix \o title_id \o <<"/">> \o suffix

DocId(row) == DocIdPrefix \o NormalizedNumber(row)

SectionSlug(row) == _section_slug(DerivedTitleId(row), NormalizedNumber(row))

\* SQLite's ORDER BY on a TEXT column: NULL first, then by code point.
SqlLess(a, b) ==
  IF a = None THEN b # None
  ELSE IF b = None THEN FALSE
  ELSE StrLess(a, b)

\* ORDER BY title_id, section_number
SectionOrder(a, b) ==
  \/ SqlLess(a.title_id, b.title_id)
  \/ (a.title_id = b.title_id /\ SqlLess(a.section_number, b.section_number))

\* Line 794: 'lvl_cgs_title_' + title_id raises TypeError for a chapter row whose
\* title_id is NULL.
SqlRaises(chaps) == \E c \in DOMAIN chaps : chaps[c].title_id = None

\* The documents rows dump_import_sql writes, lines 808-847.
dump_import_sql(rows) ==
  LET ordered == StableSort(rows, SectionOrder)
  IN  [i \in 1..Len(ordered) |->
         [doc_id     |-> DocId(ordered[i]),
          slug       |-> SectionSlug(ordered[i]),
          section_id |-> ordered[i].section_id,
          parent_id  |-> IF Truthy(ordered[i].chapter_id)
                         THEN ChapterLevelPrefix \o ordered[i].chapter_id ELSE None]]

\* The blocks list of one content file, lines 884-902.
ContentBlocks(row) ==
  SelectSeq(<< [type |-> "body", content |-> row.body],
               [type |-> "history_short", content |-> row.history_short],
               [type |-> "history_long", content |-> row.history_long],
               [type |-> "citations", content |-> row.citations] >>,
            LAMBDA b : Truthy(b.content))

\* dump_r2_content: one file per row, written in order; a later row with the
\* same path overwrites the earlier file.
dump_r2_content(files, rows) ==
  LET ordered == StableSort(rows, SectionOrder)
      RECURSIVE Write(_)
      Write(n) ==
        IF n = 0 THEN files
        ELSE Put(Write(n - 1), SectionSlug(ordered[n]) \o JsonExt,
                 [doc_id     |-> DocId(ordered[n]),
                  section_id |-> ordered[n].section_id,
                  blocks     |-> ContentBlocks(ordered[n])])
  IN  Write(Len(ordered))

\* dump_r2_level_indexes: the slugs of the index files it writes, one per
\* title row and one per chapter row.
dump_r2_level_indexes(files, title_rows, chaps) ==
  files
  \cup {SlugTitlePrefix \o t : t \in DOMAIN title_rows}
  \cup {SlugChapterPrefix \o Fmt(chaps[c].title_id) \o <<"/">> \o c : c \in DOMAIN chaps}

(***************************************************************************)
(* Input documents                                                         *)
(***************************************************************************)

Marker(id) == StartTag("span", {"catchln"}, id)

\* <span class="catchln" id=...>label</span> followed by the section's markup.
Sec(id, label, markup) == <<Marker(id), Data(label), EndTag("span")>> \o markup

Para(cls, text) == <<StartTag("p", cls, <<>>), Data(text), EndTag("p")>>

\* <head><title>...</title></head>
HeadTitle(text) == <<StartTag("title", {}, <<>>), Data(text), EndTag("title")>>

\* extract_chapter_title: the text of the first <title> element, or the
\* content of the Description meta tag (carried in the token's text).
extract_chapter_title(html_text) ==
  LET IsOpen(i)  == /\ html_text[i].t = "start" /\ html_text[i].tag = "title"
                    /\ html_text[i].cls = {}
                    /\ \E j \in (i + 1)..Len(html_text) :
                         html_text[j].t = "end" /\ html_text[j].tag = "title"
      IsMeta(i)  == /\ html_text[i].t = "start" /\ html_text[i].tag = "meta"
                    /\ html_text[i].text # <<>>
      First(P(_)) == CHOOSE i \in 1..Len(html_text) :
                       P(i) /\ \A m \in 1..(i - 1) : ~P(m)
      TitleText  == LET i == First(IsOpen)
                        j == CHOOSE k \in (i + 1)..Len(html_text) :
                               /\ html_text[k].t = "end" /\ html_text[k].tag = "title"
                               /\ \A m \in (i + 1)..(k - 1) :
                                    ~(html_text[m].t = "end" /\ html_text[m].tag = "title")
                    IN  Strip(TextOf(SubSeq(html_text, i + 1, j - 1)))
  IN  IF (\E i \in 1..Len(html_text) : IsOpen(i)) /\ TitleText # <<>> THEN TitleText
      ELSE IF \E i \in 1..Len(html_text) : IsMeta(i)
           THEN Strip(html_text[First(IsMeta)].text)
      ELSE None

\* os.path.splitext(os.path.basename(rel_path))[0]
RECURSIVE LastIndex(_, _)
LastIndex(str, c) ==
  IF str = <<>> THEN 0
  ELSE IF str[Len(str)] = c THEN Len(str)
  ELSE LastIndex(SubSeq(str, 1, Len(str) - 1), c)

ChapterIdOf(rel_path) ==
  LET base == From(rel_path, LastIndex(rel_path, "/") + 1)
      dot  == LastIndex(base, ".")
  IN  IF dot > 1 THEN SubSeq(base, 1, dot - 1) ELSE base


\* chap_1: sections 1-1, 1-3 and 1-4, the last followed by a leaked heading.
Doc1a ==
  [rel_path |-> <<"a", "/", "c", "h", "a", "p", "_", "1", ".", "h", "t", "m">>,
   html |->
      HeadTitle(<<"C", "h", " ", "1">>)
      \o Sec(<<"s", "e", "c", "_", "1", "-", "1">>,
         <<"S", "e", "c", ".", " ", "1", "-", "1", ".", " ", "D", "e", "f", "s", ".">>,
         Para({}, <<"A", "a">>) \o Para({"source"}, <<"(", "P", ".", "A", ".", " ", "1", ")">>))
      \o Sec(<<"s", "e", "c", "_", "1", "-", "3">>,
         <<"S", "e", "c", ".", " ", "1", "-", "3", ".", " ", "B", "b", ".">>,
         Para({}, <<"B", "b">>))
      \o Sec(<<"s", "e", "c", "_", "1", "-", "4">>,
         <<"S", "e", "c", ".", " ", "1", "-", "4", ".">>,
         Para({}, <<"C", "c">>) \o Para({}, <<"P", "A", "R", "T", " ", "I", "I">>))]

\* chap_1: sections 12-100, the range 12-100 to 12-104, and 12-99.
Doc1b ==
  [rel_path |-> <<"a", "/", "c", "h", "a", "p", "_", "1", ".", "h", "t", "m">>,
   html |->
      HeadTitle(<<"C", "h", " ", "1">>)
      \o Sec(<<"s", "e", "c", "_", "1", "2", "-", "1", "0", "0">>,
         <<"S", "e", "c", ".", " ", "1", "2", "-", "1", "0", "0", ".", " ", "R", "r", ".">>,
         Para({}, <<"R", "r">>))
      \o Sec(<<"s", "e", "c", "s", "_", "1", "2", "-", "1", "0", "0", "t", "o", "1", "2", "-", "1", "0", "4">>,
         <<"S", "e", "c", "s", ".", " ", "1", "2", "-", "1", "0", "0", " ", "t", "o", " ", "1", "2", "-", "1", "0", "4", ".", " ", "R", "s", ".">>,
         Para({}, <<"R", "s">>))
      \o Sec(<<"s", "e", "c", "_", "1", "2", "-", "9", "9">>,
         <<"S", "e", "c", ".", " ", "1", "2", "-", "9", "9", ".", " ", "R", "t", ".">>,
         Para({}, <<"R", "t">>))]

\* chap_1 with no <title>: a reworded 1-1, a section with an empty number,
\* and the section with the unparseable label moved here from chap_2.
Doc1c ==
  [rel_path |-> <<"a", "/", "c", "h", "a", "p", "_", "1", ".", "h", "t", "m">>,
   html |->
      Sec(<<"s", "e", "c", "_", "1", "-", "1">>,
         <<"S", "e", "c", ".", " ", "1", "-", "1", ".", " ", "N", "e", "w", ".">>,
         Para({}, <<"Z", "z">>))
      \o Sec(<<"s", "e", "c", "_", "n">>,
         <<"S", "e", "c", ".", " ", " ", ".", " ", "N", "n">>,
         Para({}, <<"N", "n">>))
      \o Sec(<<"s", "e", "c", "_", "u">>,
         <<"S", "e", "c", "t", "i", "o", "n", " ", "5">>,
         Para({}, <<"U", "u">>))]

\* chap_2: section 1-2, which the title order puts between 1-1 and 1-3.
Doc2a ==
  [rel_path |-> <<"c", "h", "a", "p", "_", "2", ".", "h", "t", "m">>,
   html |->
      HeadTitle(<<"C", "h", " ", "2">>)
      \o Sec(<<"s", "e", "c", "_", "1", "-", "2">>,
         <<"S", "e", "c", ".", " ", "1", "-", "2", ".", " ", "X", "x", ".">>,
         Para({}, <<"X", "x">>) \o Para({"history"}, <<"H", "h">>))]

\* chap_2: one section whose label does not match the label grammar.
Doc2b ==
  [rel_path |-> <<"c", "h", "a", "p", "_", "2", ".", "h", "t", "m">>,
   html |->
      HeadTitle(<<"C", "h", " ", "2">>)
      \o Sec(<<"s", "e", "c", "_", "u">>,
         <<"S", "e", "c", "t", "i", "o", "n", " ", "5">>,
         Para({}, <<"U", "u">>))]

\* chap_2: a section numbered 3 under the id sec_1-0, section 1-1 moved here
\* from chap_1, 1-2, and an unparseable label.
Doc2c ==
  [rel_path |-> <<"c", "h", "a", "p", "_", "2", ".", "h", "t", "m">>,
   html |->
      HeadTitle(<<"C", "h", " ", "2">>)
      \o Sec(<<"s", "e", "c", "_", "1", "-", "0">>,
         <<"S", "e", "c", ".", " ", "3", ".", " ", "E", "e", ".">>,
         Para({}, <<"E", "e">>))
      \o Sec(<<"s", "e", "c", "_", "1", "-", "1">>,
         <<"S", "e", "c", ".", " ", "1", "-", "1", ".", " ", "M", "o", "v", "e", "d", ".">>,
         Para({}, <<"M", "m">>))
      \o Sec(<<"s", "e", "c", "_", "1", "-", "2">>,
         <<"S", "e", "c", ".", " ", "1", "-", "2", ".", " ", "X", "x", ".">>,
         Para({}, <<"X", "x">>) \o Para({"history"}, <<"H", "h">>))
      \o Sec(<<"s", "e", "c", "_", "u">>,
         <<"S", "e", "c", "t", "i", "o", "n", " ", "5">>,
         Para({}, <<"U", "u">>))]

\* The versions each file of the mirror can have, in walk_html_files order.
FileVersions == << <<Doc1a, Doc1b, Doc1c>>, <<Doc2a, Doc2b, Doc2c>> >>

NumFiles == Len(FileVersions)

\* A document set: for each file, the version present (0: the file is absent
\* or holds no section).
DocSets ==
  {d \in [1..NumFiles -> UNION {0..Len(FileVersions[i]) : i \in 1..NumFiles}] :
     \A i \in 1..NumFiles : d[i] <= Len(FileVersions[i])}

\* The title_*.htm pages of the mirror: the raw id of the file name and the
\* title name extract_title_name finds (None when the page has none).
TitleFiles == << [raw_id |-> <<"0", "1">>, title_name |-> <<"T", "t">>],
                 [raw_id |-> <<"2", "A">>, title_name |-> None] >>

\* extract_sections_from_html of every version, evaluated once.
Extracted ==
  [i \in 1..NumFiles |->
     [v \in 1..Len(FileVersions[i]) |->
        extract_sections_from_html(FileVersions[i][v].html)]]

\* ingest_titles: one INSERT OR REPLACE per title page with a truthy title id.
ingest_titles(title_rows) ==
  LET RECURSIVE Walk(_)
      Walk(n) ==
        IF n = 0 THEN title_rows
        ELSE LET Upsert(rows, title_id) ==
                   IF ~Truthy(title_id) THEN rows
                   ELSE Put(rows, title_id,
                            [title_id_padded  |-> format_designator_padded(title_id),
                             title_id_display |-> format_designator_display(title_id),
                             title_name       |-> TitleFiles[n].title_name])
             IN  Upsert(Walk(n - 1), normalize_designator(TitleFiles[n].raw_id))
  IN  Walk(Len(TitleFiles))

(***************************************************************************)
(* The CGA run: main of parse_cga_to_sqlite.py, run repeatedly on one      *)
(* database file.                                                          *)
(***************************************************************************)

\* The number of runs of main on the same database.
MaxRuns == 2

VARIABLES
  sections,       \* the sections table, rows in rowid order
  chapters,       \* the chapters table: chapter_id -> row
  titles,         \* the titles table: title_id -> row
  sql_documents,  \* the documents rows of the last import SQL written
  r2_files,       \* the content files under the R2 root: path -> content
  index_files,    \* the level index files under the R2 root (their slugs)
  pc,             \* where main stands
  docs,           \* the document set of the current run
  file_idx,       \* the next file of the walk
  run,            \* the number of runs started
  last_ingest,    \* history: section_id -> the most recent ingest of that id
  fresh,          \* history: the ids ingested since the last linking pass
  snapshot,       \* history: sections and chapters when the run started
  prev_docs       \* history: the document set of the previous run

cgaVars == <<sections, chapters, titles, sql_documents, r2_files, index_files, pc,
             docs, file_idx, run, last_ingest, fresh, snapshot, prev_docs>>

\* sorted(designators, key=_natural_key)
VARIABLES
  designators,    \* the list to sort
  ordered,        \* the sorted list
  sort_pc

sortVars == <<designators, ordered, sort_pc>>

\* parse_label(label)
VARIABLES
  label,          \* the label text
  pieces,         \* history: the parts the label text was put together from
  parsed,         \* the tuple parse_label returned
  label_pc

labelVars == <<label, pieces, parsed, label_pc>>

\* extract_sections_from_html(html_text)
VARIABLES
  html_text,      \* the document
  written,        \* history: the label and markup chosen for each section
  emitted,        \* the list extract_sections_from_html returned
  fragments,      \* history: the section_html of each iteration of its loop
  extract_pc

extractVars == <<html_text, written, emitted, fragments, extract_pc>>

\* main of parse_usc_xml.py on one title document
VARIABLES
  elements,                 \* title_el.iter(): the chapter and section elements
  elem_idx,                 \* the next element
  usc_pc,
  current_chapter_id,       \* iter_sections
  current_chapter_heading,  \* iter_sections
  sections_by_slug,
  doc_id_by_slug,
  usc_titles,
  usc_chapters,
  section_rows,
  seen_slugs,
  usc_json,                 \* the files emit_json wrote: slug -> content
  usc_documents,            \* the documents rows emit_sql wrote
  usc_indexes,              \* the level index files emit_r2_indexes wrote
  last_element              \* history: slug -> the last section element with it

uscVars == <<elements, elem_idx, usc_pc, current_chapter_id, current_chapter_heading,
             sections_by_slug, doc_id_by_slug, usc_titles, usc_chapters, section_rows,
             seen_slugs, usc_json, usc_documents, usc_indexes, last_element>>

\* normalize_designator, format_designator_display, format_designator_padded
VARIABLES
  des_in,         \* the two designators and, history, what they were built from
  des_forms,      \* the forms computed for each of the two
  des_pc

desVars == <<des_in, des_forms, des_pc>>

\* SectionTextExtractor.get_text on the raw text of one block
VARIABLES
  raw_text,       \* "".join(self.parts[target])
  text_once,      \* the normalized text
  text_twice,     \* the normalized text, normalized again
  text_pc

textVars == <<raw_text, text_once, text_twice, text_pc>>

\* trim_trailing_headings(body_text)
VARIABLES
  body_lines,     \* history: the lines the body text was written from
  body_text,      \* the normalized body text
  trimmed,        \* the text trim_trailing_headings returned
  trim_pc

trimVars == <<body_lines, body_text, trimmed, trim_pc>>

\* SectionTextExtractor fed one fragment, event by event
VARIABLES
  feed_events,    \* the events of the fragment
  feed_idx,       \* the next event
  parser,         \* the SectionTextExtractor
  feed_log,       \* history: for each event handled, the parser before and after
  feed_pc

feedVars == <<feed_events, feed_idx, parser, feed_log, feed_pc>>

\* parse_identifier(ident) of parse_usc_xml.py
VARIABLES
  ident_segments, \* history: the prefix and segments the identifier was built from
  ident_str,      \* the identifier
  ident_nums,     \* the tuple parse_identifier returned
  ident_pc

identVars == <<ident_segments, ident_str, ident_nums, ident_pc>>

\* The variables of the functions run on their own.
unitVars == <<desVars, textVars, trimVars, feedVars, identVars>>

\* crawl(start_url, out_dir) of crawl_cga_statutes.py
VARIABLES
  crawl_start,    \* history: the start URL of the run
  crawl_queue,    \* queue
  crawl_seen,     \* seen
  crawl_saved,    \* the local paths written under out_dir
  crawl_log,      \* history: one entry per iteration of the loop
  crawl_pc

crawlVars == <<crawl_start, crawl_queue, crawl_seen, crawl_saved, crawl_log, crawl_pc>>

vars == <<cgaVars, sortVars, labelVars, extractVars, uscVars, unitVars, crawlVars>>

NoDocs == [i \in 1..NumFiles |-> 0]

CgaInit ==
  /\ sections = <<>>
  /\ chapters = <<>>
  /\ titles = <<>>
  /\ sql_documents = <<>>
  /\ r2_files = <<>>
  /\ index_files = {}
  /\ pc = "idle"
  /\ docs = NoDocs
  /\ file_idx = 1
  /\ run = 0
  /\ last_ingest = <<>>
  /\ fresh = {}
  /\ snapshot = [sections |-> <<>>, chapters |-> <<>>]
  /\ prev_docs = NoDocs

\* main is started on the database the previous run left, over a document set.
StartRun(d) ==
  /\ pc \in {"idle", "done", "error"}
  /\ run < MaxRuns
  /\ run' = run + 1
  /\ docs' = d
  /\ prev_docs' = docs
  /\ snapshot' = [sections |-> sections, chapters |-> chapters]
  /\ file_idx' = 1
  /\ pc' = "titles"
  /\ UNCHANGED <<sections, chapters, titles, sql_documents, r2_files, index_files,
                 last_ingest, fresh>>
  /\ UNCHANGED <<sortVars, labelVars, extractVars, uscVars, unitVars, crawlVars>>

\* Line 1037.
IngestTitles ==
  /\ pc = "titles"
  /\ titles' = ingest_titles(titles)
  /\ pc' = "ingest"
  /\ UNCHANGED <<sections, chapters, sql_documents, r2_files, index_files, docs,
                 file_idx, run, last_ingest, fresh, snapshot, prev_docs>>
  /\ UNCHANGED <<sortVars, labelVars, extractVars, uscVars, unitVars, crawlVars>>

\* last_ingest after ingest_sections(sections_in, chapter_id).
RECURSIVE Recorded(_, _, _)
Recorded(history, sections_in, chapter_id) ==
  IF sections_in = <<>> THEN history
  ELSE Recorded(Put(history, Head(sections_in).section_id,
                    [section |-> Head(sections_in), chapter_id |-> chapter_id]),
                Tail(sections_in), chapter_id)

\* One iteration of the loop at lines 1039-1050.
IngestFile ==
  /\ pc = "ingest"
  /\ LET Ingest(doc, sections_in) ==
           LET Into(chapter_id) ==
                 /\ chapters' = ingest_chapter(chapters, chapter_id,
                                               extract_chapter_title(doc.html))
                 /\ sections' = ingest_sections(sections, sections_in,
                                                doc.rel_path, chapter_id)
                 /\ last_ingest' = Recorded(last_ingest, sections_in, chapter_id)
                 /\ fresh' = fresh \cup {sections_in[i].section_id :
                                           i \in 1..Len(sections_in)}
           IN  IF sections_in = <<>>
               THEN UNCHANGED <<sections, chapters, last_ingest, fresh>>
               ELSE Into(ChapterIdOf(doc.rel_path))
     IN  IF docs[file_idx] = 0
         THEN UNCHANGED <<sections, chapters, last_ingest, fresh>>
         ELSE Ingest(FileVersions[file_idx][docs[file_idx]],
                     Extracted[file_idx][docs[file_idx]])
  /\ file_idx' = file_idx + 1
  /\ pc' = IF file_idx = NumFiles THEN "link" ELSE "ingest"
  /\ UNCHANGED <<titles, sql_documents, r2_files, index_files, docs, run, snapshot,
                 prev_docs>>
  /\ UNCHANGED <<sortVars, labelVars, extractVars, uscVars, unitVars, crawlVars>>

\* Line 1051.
UpdatePrevNext ==
  /\ pc = "link"
  /\ sections' = update_prev_next(sections)
  /\ fresh' = {}
  /\ pc' = "rollup"
  /\ UNCHANGED <<chapters, titles, sql_documents, r2_files, index_files, docs,
                 file_idx, run, last_ingest, snapshot, prev_docs>>
  /\ UNCHANGED <<sortVars, labelVars, extractVars, uscVars, unitVars, crawlVars>>

\* Lines 1052-1053.
UpdateChapterSummaries ==
  /\ pc = "rollup"
  /\ chapters' = update_chapter_summaries(sections, chapters)
  /\ pc' = "dump_sql"
  /\ UNCHANGED <<sections, titles, sql_documents, r2_files, index_files, docs,
                 file_idx, run, last_ingest, fresh, snapshot, prev_docs>>
  /\ UNCHANGED <<sortVars, labelVars, extractVars, uscVars, unitVars, crawlVars>>

\* Line 1054: the file is written only when no line of it raised.
DumpImportSql ==
  /\ pc = "dump_sql"
  /\ IF SqlRaises(chapters)
     THEN pc' = "error" /\ UNCHANGED sql_documents
     ELSE pc' = "dump_r2" /\ sql_documents' = dump_import_sql(sections)
  /\ UNCHANGED <<sections, chapters, titles, r2_files, index_files, docs, file_idx,
                 run, last_ingest, fresh, snapshot, prev_docs>>
  /\ UNCHANGED <<sortVars, labelVars, extractVars, uscVars, unitVars, crawlVars>>

\* Line 1055.
DumpR2Content ==
  /\ pc = "dump_r2"
  /\ r2_files' = dump_r2_content(r2_files, sections)
  /\ pc' = "dump_idx"
  /\ UNCHANGED <<sections, chapters, titles, sql_documents, index_files, docs,
                 file_idx, run, last_ingest, fresh, snapshot, prev_docs>>
  /\ UNCHANGED <<sortVars, labelVars, extractVars, uscVars, unitVars, crawlVars>>

\* Line 1056.
DumpR2LevelIndexes ==
  /\ pc = "dump_idx"
  /\ index_files' = dump_r2_level_indexes(index_files, titles, chapters)
  /\ pc' = "done"
  /\ UNCHANGED <<sections, chapters, titles, sql_documents, r2_files, docs,
                 file_idx, run, last_ingest, fresh, snapshot, prev_docs>>
  /\ UNCHANGED <<sortVars, labelVars, extractVars, uscVars, unitVars, crawlVars>>

CgaNext ==
  \/ \E d \in DocSets : StartRun(d)
  \/ IngestTitles
  \/ IngestFile
  \/ UpdatePrevNext
  \/ UpdateChapterSummaries
  \/ DumpImportSql
  \/ DumpR2Content
  \/ DumpR2LevelIndexes

(***************************************************************************)
(* Sorting designators by _natural_key                                     *)
(***************************************************************************)

\* The designators the lists are drawn from.
SortDesignators == {<<"2">>, <<"1", "0">>, <<"3", "a">>, <<"3">>}

\* The longest list sorted.
MaxList == 4

DesignatorLists == UNION {[1..n -> SortDesignators] : n \in 1..MaxList}

\* key(a) < key(b) for key=_natural_key
NaturalOrder(a, b) == KeyLess(_natural_key(a), _natural_key(b))

\* sorted(values, key=_natural_key): a stable sort by the key.
SortedByNaturalKey(values) == StableSort(values, NaturalOrder)

SortInit ==
  /\ designators = <<>>
  /\ ordered = <<>>
  /\ sort_pc = "idle"

ChooseDesignators(values) ==
  /\ sort_pc = "idle"
  /\ designators' = values
  /\ sort_pc' = "chosen"
  /\ UNCHANGED ordered
  /\ UNCHANGED <<cgaVars, labelVars, extractVars, uscVars, unitVars, crawlVars>>

SortByNaturalKey ==
  /\ sort_pc = "chosen"
  /\ ordered' = SortedByNaturalKey(designators)
  /\ sort_pc' = "sorted"
  /\ UNCHANGED designators
  /\ UNCHANGED <<cgaVars, labelVars, extractVars, uscVars, unitVars, crawlVars>>

SortNext ==
  \/ \E values \in DesignatorLists : ChooseDesignators(values)
  \/ SortByNaturalKey

(***************************************************************************)
(* Parsing labels                                                          *)
(***************************************************************************)

LabelPrefixes == {<<"S", "e", "c", ".">>, <<"S", "e", "c", "s", ".">>, <<"S", "e", "c", "t", "i", "o", "n">>}

LabelDesignators == {<<"1", "-", "1">>, <<"1", "-", "5">>, <<"3", "a">>}

\* " to " as the labels write it.
RangeWords == {<<" ", "t", "o", " ">>, <<" ", "T", "O", " ">>, <<" ", "T", "o", " ">>}

\* What stands between the first designator and the second one.
LabelSeparators == RangeWords \cup {<<",", " ">>}

\* What follows the second designator, up to the dot that ends the list.
LabelContinuations == {<<>>, <<",", " ", "1", "-", "9">>, <<",", " ", "2", "-", "1", " ", "t", "o", " ", "2", "-", "3">>}

LabelTitles == {<<>>, <<"G", "e", "n", "e", "r", "a", "l", " ", "P", "r", "o", "v", "i", "s", "i", "o", "n", "s", ".">>, <<"R", "s", ".">>}

\* prefix, a designator list, a dot and the title; sep and last are both empty
\* when the list holds one designator.
LabelPieces ==
  {p \in [prefix : LabelPrefixes, first : LabelDesignators,
          sep : LabelSeparators \cup {<<>>}, last : LabelDesignators \cup {<<>>},
          rest : LabelContinuations, title : LabelTitles] :
     (p.sep = <<>>) <=> (p.last = <<>>)}

LabelText(p) ==
  p.prefix \o <<" ">> \o p.first \o p.sep \o p.last \o p.rest \o <<".">>
  \o (IF p.title = <<>> THEN <<>> ELSE <<" ">> \o p.title)

NoPieces ==
  [prefix |-> <<>>, first |-> <<>>, sep |-> <<>>, last |-> <<>>, rest |-> <<>>,
   title |-> <<>>]

LabelInit ==
  /\ label = <<>>
  /\ pieces = NoPieces
  /\ parsed = NoLabel
  /\ label_pc = "idle"

ChooseLabel(p) ==
  /\ label_pc = "idle"
  /\ pieces' = p
  /\ label' = LabelText(p)
  /\ label_pc' = "chosen"
  /\ UNCHANGED parsed
  /\ UNCHANGED <<cgaVars, sortVars, extractVars, uscVars, unitVars, crawlVars>>

ParseLabel ==
  /\ label_pc = "chosen"
  /\ parsed' = parse_label(label)
  /\ label_pc' = "parsed"
  /\ UNCHANGED <<label, pieces>>
  /\ UNCHANGED <<cgaVars, sortVars, extractVars, uscVars, unitVars, crawlVars>>

LabelNext ==
  \/ \E p \in LabelPieces : ChooseLabel(p)
  \/ ParseLabel

(***************************************************************************)
(* Splitting documents                                                     *)
(***************************************************************************)

\* The label texts of the generated documents: two that match the label
\* grammar, and three that do not (the last one is an empty label span).
GoodLabels == {<<"S", "e", "c", ".", " ", "1", "-", "1", ".", " ", "D", "e", "f", "s", ".">>, <<"S", "e", "c", "s", ".", " ", "1", "-", "2", " ", "t", "o", " ", "1", "-", "4", ".", " ", "R", "s", ".">>}

BadLabels == {<<"S", "e", "c", "t", "i", "o", "n", " ", "5">>, <<"S", "e", "c", ".", " ", "1", "-", "1">>, <<>>}

SectionMarkups ==
  {Para({}, <<"A", "a">>),
   Para({}, <<"B", "b">>) \o Para({"source"}, <<"(", "P", ".", "A", ".", " ", "1", ")">>)}

\* The most sections a generated document holds.
MaxSections == 2

WrittenDocs ==
  UNION {[1..n -> [label : GoodLabels \cup BadLabels, markup : SectionMarkups]] :
           n \in 0..MaxSections}

\* The id of the i-th section of a generated document: sec_1-1, sec_1-2, ...
SectionIdAt(i) == <<"s", "e", "c", "_", "1", "-">> \o <<DigitChars[i + 1]>>

\* <span class="catchln" id=...>label</span> and the markup; an empty label
\* leaves the span empty.
SecElem(id, text, markup) ==
  IF text = <<>> THEN <<Marker(id), EndTag("span")>> \o markup
  ELSE Sec(id, text, markup)

RECURSIVE SectionsMarkup(_, _)
SectionsMarkup(w, n) ==
  IF n = 0 THEN <<>>
  ELSE SectionsMarkup(w, n - 1) \o SecElem(SectionIdAt(n), w[n].label, w[n].markup)

DocumentOf(w) == HeadTitle(<<"C", "h", " ", "1">>) \o SectionsMarkup(w, Len(w))

ExtractInit ==
  /\ html_text = <<>>
  /\ written = <<>>
  /\ emitted = <<>>
  /\ fragments = <<>>
  /\ extract_pc = "idle"

ChooseDocument(w) ==
  /\ extract_pc = "idle"
  /\ written' = w
  /\ html_text' = DocumentOf(w)
  /\ extract_pc' = "chosen"
  /\ UNCHANGED <<emitted, fragments>>
  /\ UNCHANGED <<cgaVars, sortVars, labelVars, uscVars, unitVars, crawlVars>>

ExtractSections ==
  /\ extract_pc = "chosen"
  /\ emitted' = extract_sections_from_html(html_text)
  /\ fragments' = SectionFragments(html_text)
  /\ extract_pc' = "extracted"
  /\ UNCHANGED <<html_text, written>>
  /\ UNCHANGED <<cgaVars, sortVars, labelVars, uscVars, unitVars, crawlVars>>

ExtractNext ==
  \/ \E w \in WrittenDocs : ChooseDocument(w)
  \/ ExtractSections

(***************************************************************************)
(* The USC front end: parse_usc_xml.py                                     *)
(*                                                                         *)
(* A title document is the sequence of the chapter and section elements    *)
(* title_el.iter() visits.  An element carries its identifier attribute,   *)
(* the value of its num child, its heading text and, for a section, the    *)
(* four blocks the extract_* functions return for it.                      *)
(***************************************************************************)

UscPrefix == <<"/", "u", "s", "/", "u", "s", "c", "/">>

\* str.strip("/")
RECURSIVE StripSlashes(_)
StripSlashes(str) ==
  IF str # <<>> /\ Head(str) = "/" THEN StripSlashes(Tail(str))
  ELSE IF str # <<>> /\ str[Len(str)] = "/"
       THEN StripSlashes(SubSeq(str, 1, Len(str) - 1))
  ELSE str

\* str.split(c)
RECURSIVE SplitOn(_, _)
SplitOn(str, c) ==
  LET Cut(i) == IF i = 0 THEN <<str>>
                ELSE <<SubSeq(str, 1, i - 1)>> \o SplitOn(From(str, i + 1), c)
  IN  Cut(FindChar(str, c))

NoIdentifier == [title |-> None, chapter |-> None, section |-> None]

\* The body of the loop of parse_identifier, lines 63-68.
IdentifierPart(nums, part) ==
  IF StartsWith(part, <<"t">>) THEN [nums EXCEPT !.title = From(part, 2)]
  ELSE IF StartsWith(part, <<"c", "h">>) THEN [nums EXCEPT !.chapter = From(part, 3)]
  ELSE IF StartsWith(part, <<"s">>) THEN [nums EXCEPT !.section = From(part, 2)]
  ELSE nums

parse_identifier(ident) ==
  LET Walk(parts) ==
        LET RECURSIVE Fold(_)
            Fold(n) == IF n = 0 THEN NoIdentifier
                       ELSE IdentifierPart(Fold(n - 1), parts[n])
        IN  Fold(Len(parts))
  IN  IF ~Truthy(ident) \/ ~StartsWith(ident, UscPrefix) THEN NoIdentifier
      ELSE Walk(SplitOn(StripSlashes(From(ident, Len(UscPrefix) + 1)), "/"))

\* Whether str holds "/s".
HasSlashS(str) == \E i \in 1..(Len(str) - 1) : str[i] = "/" /\ str[i + 1] = "s"

\* section_slug
section_slug(title_num, section_num) ==
  <<"s", "t", "a", "t", "u", "t", "e", "s", "/", "u", "s", "c", "/", "s", "e", "c", "t", "i", "o", "n", "/">> \o title_num \o <<"/">> \o section_num

\* level_slug("usc", level_type, identifier)
level_slug(level_type, identifier) ==
  <<"s", "t", "a", "t", "u", "t", "e", "s", "/", "u", "s", "c", "/">> \o level_type \o <<"/">> \o identifier

\* section_sort_key: (1, (int, suffix)) when the lowercased value matches
\* ^(\d+)([a-z]*)$, else (0, value.lower()).
section_sort_key(section_num) ==
  LET Keyed(v) ==
        LET Digits(n) ==
              IF n >= 1 /\ \A i \in (n + 1)..Len(v) : v[i] \in Range(LowerChars)
              THEN [k |-> 1, n |-> DigitsToInt(SubSeq(v, 1, n)), s |-> From(v, n + 1)]
              ELSE [k |-> 0, n |-> 0, s |-> v]
        IN  Digits(DigitRun(v))
  IN  Keyed(Lower(section_num))

\* Python's < on two such keys.
SortKeyLess(a, b) ==
  IF a.k # b.k THEN a.k < b.k
  ELSE IF a.n # b.n THEN a.n < b.n
  ELSE StrLess(a.s, b.s)

\* The sort of emit_sql, lines 372-380: by (title_sort_key, section_sort_key).
RowOrder(a, b) ==
  LET Less(ta, tb) ==
        \/ SortKeyLess(ta, tb)
        \/ (ta = tb /\ SortKeyLess(section_sort_key(a.section_num),
                                   section_sort_key(b.section_num)))
  IN  Less(section_sort_key(a.title_num), section_sort_key(b.title_num))

\* The blocks list emit_json writes for one section.
JsonBlocks(data) ==
  SelectSeq(<< [type |-> "body", content |-> data.body],
               [type |-> "history_short", content |-> data.history_short],
               [type |-> "history_long", content |-> data.history_long],
               [type |-> "citations", content |-> data.citations] >>,
            LAMBDA b : Truthy(b.content))

\* emit_json: one file per slug of sections_by_slug.
emit_json(by_slug, doc_ids) ==
  [slug \in DOMAIN by_slug |->
     [doc_id |-> doc_ids[slug], blocks |-> JsonBlocks(by_slug[slug])]]

\* emit_sql: the documents rows, in the order they are written.
emit_sql(rows) ==
  LET Written(sorted) ==
        [i \in 1..Len(sorted) |->
           [doc_id |-> sorted[i].doc_id, title |-> sorted[i].heading,
            citation |-> sorted[i].section_num, slug |-> sorted[i].slug,
            level_id |-> sorted[i].level_id, parent_id |-> sorted[i].parent_level_id]]
  IN  Written(StableSort(rows, RowOrder))

\* The identifiers of the root and title elements, and the title number the
\* file name gives.
RootIdentifier == <<"/", "u", "s", "/", "u", "s", "c", "/", "t", "1">>

TitleIdentifier == <<"/", "u", "s", "/", "u", "s", "c", "/", "t", "1">>

FileTitle == <<"0", "1">>

\* The content of the dc:title element of the document's meta.
DcTitle == <<"G", "e", "n", "e", "r", "a", "l">>

\* doc_title_num of main, lines 454-458 and 521-524.
DocTitleNum ==
  LET Pick(t) == IF ~Truthy(t) THEN FileTitle ELSE t
  IN  Pick(parse_identifier(RootIdentifier).title)

\* title_num of iter_sections, lines 161-164.
TitleNum ==
  LET Pick(t) == IF ~Truthy(t) THEN DocTitleNum ELSE t
  IN  Pick(parse_identifier(TitleIdentifier).title)

ChapterElement(identifier, heading) ==
  [kind |-> "chapter", identifier |-> identifier, num |-> <<>>, heading |-> heading,
   body |-> <<>>, history_short |-> <<>>, history_long |-> <<>>, citations |-> <<>>]

SectionElement(identifier, num, heading, body, history_short) ==
  [kind |-> "section", identifier |-> identifier, num |-> num, heading |-> heading,
   body |-> body, history_short |-> history_short, history_long |-> <<>>,
   citations |-> <<>>]

\* The elements the documents are put together from.
UscElements ==
  {ChapterElement(<<"/", "u", "s", "/", "u", "s", "c", "/", "t", "1", "/", "c", "h", "1">>, <<"A">>),
   ChapterElement(<<"/", "u", "s", "/", "u", "s", "c", "/", "t", "1", "/", "c", "h", "2">>, <<>>),
   SectionElement(<<"/", "u", "s", "/", "u", "s", "c", "/", "t", "1", "/", "s", "1">>, <<"1">>, <<"H">>, <<"x">>, <<>>),
   SectionElement(<<"/", "u", "s", "/", "u", "s", "c", "/", "t", "1", "/", "s", "1">>, <<"1">>, <<"K">>, <<"y">>, <<"c">>),
   SectionElement(<<"/", "u", "s", "/", "u", "s", "c", "/", "t", "1", "/", "s">>, <<"2", "a">>, <<"H">>, <<"x">>, <<>>),
   SectionElement(None, <<"3">>, <<"N">>, <<"z">>, <<>>)}

\* The most elements a document holds.
MaxElements == 3

UscDocuments == UNION {[1..n -> UscElements] : n \in 0..MaxElements}

UscInit ==
  /\ elements = <<>>
  /\ elem_idx = 1
  /\ usc_pc = "idle"
  /\ current_chapter_id = None
  /\ current_chapter_heading = None
  /\ sections_by_slug = <<>>
  /\ doc_id_by_slug = <<>>
  /\ usc_titles = <<>>
  /\ usc_chapters = <<>>
  /\ section_rows = <<>>
  /\ seen_slugs = {}
  /\ usc_json = <<>>
  /\ usc_documents = <<>>
  /\ usc_indexes = {}
  /\ last_element = <<>>

\* main opens the title document.
ParseDocument(es) ==
  /\ usc_pc = "idle"
  /\ elements' = es
  /\ usc_pc' = "sections"
  /\ UNCHANGED <<elem_idx, current_chapter_id, current_chapter_heading,
                 sections_by_slug, doc_id_by_slug, usc_titles, usc_chapters,
                 section_rows, seen_slugs, usc_json, usc_documents, usc_indexes,
                 last_element>>
  /\ UNCHANGED <<cgaVars, sortVars, labelVars, extractVars, unitVars, crawlVars>>

\* section_num of main, lines 463-468: from the identifier, else from the
\* value of the num child.
SectionNum(elem) ==
  LET Pick(n) == IF ~Truthy(n) THEN elem.num ELSE n
  IN  Pick(parse_identifier(elem.identifier).section)

\* The row main appends to section_rows, lines 500-511.
UscRow(title_num, chapter_id, section_num, heading) ==
  [title_num       |-> title_num,
   chapter_id      |-> chapter_id,
   section_num     |-> section_num,
   heading         |-> heading,
   slug            |-> section_slug(title_num, section_num),
   doc_id          |-> <<"d", "o", "c", "_", "u", "s", "c", "_">> \o title_num \o <<"-">> \o section_num,
   level_id        |-> <<"l", "v", "l", "_", "u", "s", "c", "_", "s", "e", "c", "t", "i", "o", "n", "_">> \o title_num \o <<"-">> \o section_num,
   parent_level_id |-> IF Truthy(chapter_id) THEN <<"l", "v", "l", "_", "u", "s", "c", "_", "c", "h", "a", "p", "t", "e", "r", "_">> \o chapter_id
                       ELSE <<"l", "v", "l", "_", "u", "s", "c", "_", "t", "i", "t", "l", "e", "_">> \o title_num]

\* The blocks main stores for a section element, lines 491-496.
UscBlocks(elem) ==
  [body |-> elem.body, history_short |-> elem.history_short,
   history_long |-> elem.history_long, citations |-> elem.citations]

\* dict.get(k): None when k is no key of f.
Get(f, k) == IF k \in DOMAIN f THEN f[k] ELSE None

\* The chapter branch of iter_sections, lines 168-176.
EnterChapter(elem) ==
  LET Set(ch_num) ==
        /\ current_chapter_id' = IF Truthy(ch_num) THEN TitleNum \o <<"-">> \o ch_num
                                 ELSE None
        /\ current_chapter_heading' = elem.heading
  IN  /\ Set(parse_identifier(elem.identifier).chapter)
      /\ UNCHANGED <<sections_by_slug, doc_id_by_slug, usc_titles, usc_chapters,
                     section_rows, seen_slugs, last_element>>

\* The body of the loop of main for one section iter_sections yields, lines
\* 463-512.
StoreSection(elem, section_num) ==
  LET Store(row) ==
        /\ usc_titles' = Put(usc_titles, TitleNum,
                             Or(Get(usc_titles, TitleNum), <<"T", "i", "t", "l", "e", " ">> \o TitleNum))
        /\ usc_chapters' =
             IF Truthy(current_chapter_id)
             THEN Put(usc_chapters, current_chapter_id,
                      [title_num |-> TitleNum,
                       heading |-> Or(current_chapter_heading, current_chapter_id)])
             ELSE usc_chapters
        /\ sections_by_slug' = Put(sections_by_slug, row.slug, UscBlocks(elem))
        /\ doc_id_by_slug' = Put(doc_id_by_slug, row.slug, row.doc_id)
        /\ seen_slugs' = seen_slugs \cup {row.slug}
        /\ section_rows' = IF row.slug \in seen_slugs THEN section_rows
                           ELSE Append(section_rows, row)
        /\ last_element' = Put(last_element, row.slug,
                               [row |-> row, blocks |-> UscBlocks(elem)])
  IN  /\ Store(UscRow(TitleNum, current_chapter_id, section_num, elem.heading))
      /\ UNCHANGED <<current_chapter_id, current_chapter_heading>>

\* One element of title_el.iter(): iter_sections up to its next yield and the
\* body of the loop of main for the section yielded.
ProcessElement ==
  /\ usc_pc = "sections"
  /\ elem_idx <= Len(elements)
  /\ LET Visit(elem) ==
           IF elem.kind = "chapter" THEN EnterChapter(elem)
           ELSE IF /\ Truthy(elem.identifier)
                   /\ StartsWith(elem.identifier, UscPrefix)
                   /\ HasSlashS(elem.identifier)
                   /\ Truthy(SectionNum(elem))
                THEN StoreSection(elem, SectionNum(elem))
           ELSE UNCHANGED <<current_chapter_id, current_chapter_heading,
                            sections_by_slug, doc_id_by_slug, usc_titles,
                            usc_chapters, section_rows, seen_slugs, last_element>>
     IN  Visit(elements[elem_idx])
  /\ elem_idx' = elem_idx + 1
  /\ UNCHANGED <<elements, usc_pc, usc_json, usc_documents, usc_indexes>>
  /\ UNCHANGED <<cgaVars, sortVars, labelVars, extractVars, unitVars, crawlVars>>

\* The second loop of main, lines 515-534: the title name from dc:title.
FillTitleNames ==
  /\ usc_pc = "sections"
  /\ elem_idx > Len(elements)
  /\ usc_titles' = Put(usc_titles, DocTitleNum, Strip(DcTitle))
  /\ usc_pc' = "emit"
  /\ UNCHANGED <<elements, elem_idx, current_chapter_id, current_chapter_heading,
                 sections_by_slug, doc_id_by_slug, usc_chapters, section_rows,
                 seen_slugs, usc_json, usc_documents, usc_indexes, last_element>>
  /\ UNCHANGED <<cgaVars, sortVars, labelVars, extractVars, unitVars, crawlVars>>

\* emit_r2_indexes: the slugs of the index files, one per title and one per
\* chapter whose id holds a hyphen.
emit_r2_indexes(title_names, chapter_rows) ==
  {level_slug(<<"t", "i", "t", "l", "e">>, t) : t \in DOMAIN title_names}
  \cup {level_slug(<<"c", "h", "a", "p", "t", "e", "r">>,
                   chapter_rows[c].title_num \o <<"/">> \o From(c, FindChar(c, "-") + 1)) :
          c \in {x \in DOMAIN chapter_rows : Contains(x, "-")}}

\* Lines 536-538.
EmitOutputs ==
  /\ usc_pc = "emit"
  /\ usc_json' = emit_json(sections_by_slug, doc_id_by_slug)
  /\ usc_indexes' = emit_r2_indexes(usc_titles, usc_chapters)
  /\ usc_documents' = emit_sql(section_rows)
  /\ usc_pc' = "done"
  /\ UNCHANGED <<elements, elem_idx, current_chapter_id, current_chapter_heading,
                 sections_by_slug, doc_id_by_slug, usc_titles, usc_chapters,
                 section_rows, seen_slugs, last_element>>
  /\ UNCHANGED <<cgaVars, sortVars, labelVars, extractVars, unitVars, crawlVars>>

UscNext ==
  \/ \E es \in UscDocuments : ParseDocument(es)
  \/ ProcessElement
  \/ FillTitleNames
  \/ EmitOutputs

(***************************************************************************)
(* Designator forms                                                        *)
(***************************************************************************)

DesignatorZeros == {<<>>, <<"0", "0">>}

DesignatorDigits == {<<"0">>, <<"7">>, <<"1", "2">>, <<"9", "9", "9", "9">>, <<"1", "2", "3", "4", "5">>}

DesignatorSuffixes == {<<>>, <<"a">>, <<"A">>, <<"b">>, <<DotlessI>>, <<CapitalIDot>>}

\* Values that are no <digits><letters>: None, "", "12-100a", "A", "12a\n\n"
\* and the dotless i alone.
OtherDesignators ==
  {None, <<>>, <<"1", "2", "-", "1", "0", "0", "a">>, <<"A">>,
   <<"1", "2", "a", "\n", "\n">>, <<DotlessI>>}

\* A value with what it was built from; shaped values are zeros, digits and a
\* letter suffix.
DesignatorInputs ==
  {[shaped |-> TRUE, zeros |-> z, digits |-> d, suffix |-> s, text |-> z \o d \o s] :
     z \in DesignatorZeros, d \in DesignatorDigits, s \in DesignatorSuffixes}
  \cup {[shaped |-> FALSE, zeros |-> <<>>, digits |-> <<>>, suffix |-> <<>>, text |-> v] :
          v \in OtherDesignators}

\* The forms of one value: its key, the display form of the key, the key of
\* that display form, and the padded forms of the value and of its key.
DesignatorForms(value) ==
  LET Keyed(normalized) ==
        [normalized        |-> normalized,
         display           |-> format_designator_display(normalized),
         renormalized      |-> normalize_designator(format_designator_display(normalized)),
         padded            |-> format_designator_padded(value),
         padded_normalized |-> format_designator_padded(normalized)]
  IN  Keyed(normalize_designator(value))

DesInit ==
  /\ des_in = <<>>
  /\ des_forms = <<>>
  /\ des_pc = "idle"

ChooseDesignatorPair(a, b) ==
  /\ des_pc = "idle"
  /\ des_in' = <<a, b>>
  /\ des_pc' = "chosen"
  /\ UNCHANGED des_forms
  /\ UNCHANGED <<cgaVars, sortVars, labelVars, extractVars, uscVars, crawlVars>>
  /\ UNCHANGED <<textVars, trimVars, feedVars, identVars>>

FormatDesignators ==
  /\ des_pc = "chosen"
  /\ des_forms' = [i \in 1..2 |-> DesignatorForms(des_in[i].text)]
  /\ des_pc' = "formatted"
  /\ UNCHANGED des_in
  /\ UNCHANGED <<cgaVars, sortVars, labelVars, extractVars, uscVars, crawlVars>>
  /\ UNCHANGED <<textVars, trimVars, feedVars, identVars>>

DesNext ==
  \/ \E a, b \in DesignatorInputs : ChooseDesignatorPair(a, b)
  \/ FormatDesignators

(***************************************************************************)
(* Normalizing the text of a block                                         *)
(***************************************************************************)

\* A space, the line breaks and an ordinary character.
RawChars == {" ", "\n", "\r", "a"}

\* The longest raw text normalized.
MaxRawLen == 5

RawTexts == UNION {[1..n -> RawChars] : n \in 0..MaxRawLen}

TextInit ==
  /\ raw_text = <<>>
  /\ text_once = <<>>
  /\ text_twice = <<>>
  /\ text_pc = "idle"

ChooseRawText(raw) ==
  /\ text_pc = "idle"
  /\ raw_text' = raw
  /\ text_pc' = "chosen"
  /\ UNCHANGED <<text_once, text_twice>>
  /\ UNCHANGED <<cgaVars, sortVars, labelVars, extractVars, uscVars, crawlVars>>
  /\ UNCHANGED <<desVars, trimVars, feedVars, identVars>>

\* get_text on a block whose joined parts are raw_text.
GetText ==
  /\ text_pc = "chosen"
  /\ text_once' = NormalizeText(raw_text)
  /\ text_pc' = "once"
  /\ UNCHANGED <<raw_text, text_twice>>
  /\ UNCHANGED <<cgaVars, sortVars, labelVars, extractVars, uscVars, crawlVars>>
  /\ UNCHANGED <<desVars, trimVars, feedVars, identVars>>

\* get_text on a block whose joined parts are the text it returned before.
GetTextAgain ==
  /\ text_pc = "once"
  /\ text_twice' = NormalizeText(text_once)
  /\ text_pc' = "twice"
  /\ UNCHANGED <<raw_text, text_once>>
  /\ UNCHANGED <<cgaVars, sortVars, labelVars, extractVars, uscVars, crawlVars>>
  /\ UNCHANGED <<desVars, trimVars, feedVars, identVars>>

TextNext ==
  \/ \E raw \in RawTexts : ChooseRawText(raw)
  \/ GetText
  \/ GetTextAgain

(***************************************************************************)
(* Trimming trailing headings                                              *)
(***************************************************************************)

\* A line of n capital letters.
CapsLine(n) == [i \in 1..n |-> "A"]

Line(text, heading) == [text |-> text, heading |-> heading]

BlankLine == Line(<<>>, FALSE)

\* The lines a body is written from before its last line; heading tells
\* whether the line is a structural heading.
InnerLines ==
  {BlankLine,
   Line(<<"B", "o", "d", "y", " ", "t", "e", "x", "t", ".">>, FALSE),
   Line(<<"A", "R", "T", "I", "C", "L", "E", " ", "I", "I">>, TRUE),
   Line(<<"G", "E", "N", "E", "R", "A", "L", " ", "P", "R", "O", "V", "I", "S", "I", "O", "N", "S">>, TRUE),
   Line(<<"(", "A", ")">>, TRUE)}

\* The last lines: the keyword headings with roman and arabic numerals, an
\* all-caps line of CapsHeadingMaxLen characters and a longer one, the
\* parenthesized capital letter and roman numeral, and lines that are none
\* of these.
LastLines ==
  InnerLines \cup
  {Line(<<"P", "A", "R", "T", " ", "1", "2">>, TRUE),
   Line(<<"S", "U", "B", "P", "A", "R", "T", " ", "I", "V">>, TRUE),
   Line(<<"C", "H", "A", "P", "T", "E", "R", " ", "7">>, TRUE),
   Line(<<"T", "A", "X", "E", "S", ",", " ", "F", "E", "E", "S", " ", "&", " ", "L", "I", "E", "N", "S">>, TRUE),
   Line(CapsLine(CapsHeadingMaxLen), TRUE),
   Line(CapsLine(CapsHeadingMaxLen + 1), FALSE),
   Line(<<"(", "I", "V", ")">>, TRUE),
   Line(<<"(", "a", ")", " ", "T", "e", "x", "t", ".">>, FALSE),
   Line(<<"A", "r", "t", "i", "c", "l", "e", " ", "I", "I">>, FALSE),
   Line(<<"(", "A", "B", ")">>, FALSE)}

\* The number of lines before the last one.
MaxInnerLines == 3

\* The texts of the lines.
TextsOf(lines) == [i \in 1..Len(lines) |-> lines[i].text]

\* A body as get_text returns it: no blank line first or last, no two blank
\* lines in a row.
IsNormalBody(lines) ==
  /\ lines # <<>> => lines[1] # BlankLine /\ lines[Len(lines)] # BlankLine
  /\ \A i \in 1..(Len(lines) - 1) : ~(lines[i] = BlankLine /\ lines[i + 1] = BlankLine)

Bodies ==
  {b \in UNION {[1..n -> InnerLines] : n \in 0..MaxInnerLines}
          \cup {Append(inner, last) :
                  inner \in UNION {[1..n -> InnerLines] : n \in 0..MaxInnerLines},
                  last \in LastLines} :
     IsNormalBody(b)}

TrimInit ==
  /\ body_lines = <<>>
  /\ body_text = <<>>
  /\ trimmed = <<>>
  /\ trim_pc = "idle"

ChooseBody(lines) ==
  /\ trim_pc = "idle"
  /\ body_lines' = lines
  /\ body_text' = Join(TextsOf(lines), <<"\n">>)
  /\ trim_pc' = "chosen"
  /\ UNCHANGED trimmed
  /\ UNCHANGED <<cgaVars, sortVars, labelVars, extractVars, uscVars, crawlVars>>
  /\ UNCHANGED <<desVars, textVars, feedVars, identVars>>

TrimTrailingHeadings ==
  /\ trim_pc = "chosen"
  /\ trimmed' = trim_trailing_headings(body_text)
  /\ trim_pc' = "trimmed"
  /\ UNCHANGED <<body_lines, body_text>>
  /\ UNCHANGED <<cgaVars, sortVars, labelVars, extractVars, uscVars, crawlVars>>
  /\ UNCHANGED <<desVars, textVars, feedVars, identVars>>

TrimNext ==
  \/ \E lines \in Bodies : ChooseBody(lines)
  \/ TrimTrailingHeadings

(***************************************************************************)
(* Specifications                                                          *)
(***************************************************************************)

(***************************************************************************)
(* Feeding the extractor                                                   *)
(***************************************************************************)

\* An element: its start tag, its content, its end tag.
Element(tag, cls, content) ==
  <<StartTag(tag, cls, <<>>)>> \o content \o <<EndTag(tag)>>

Text(c) == <<Data(<<c>>)>>

ElementTags == {"div", "tr", "span"}

\* No class, and one class of each of the four blocks.
ElementClasses == {{}, {"source"}, {"history-first"}, {"annotation"}, {"cross-ref"}}

\* Nothing, or one element with one text.
InnerElements ==
  {<<>>} \cup {Element(tag, cls, Text("e")) : tag \in ElementTags, cls \in ElementClasses}

\* Text, an element holding text around an optional inner element, text.
NestedFragments ==
  {Text("a") \o Element(tag, cls, Text("b") \o inner \o Text("c")) \o Text("d") :
     tag \in ElementTags, cls \in ElementClasses, inner \in InnerElements}

\* A label span holding text around an optional inner element, then text.
LabelFragments ==
  {<<Marker(<<"s">>)>> \o Text("l") \o inner \o Text("m") \o <<EndTag("span")>>
   \o Text("x") :
     inner \in {<<>>, Element("span", {}, Text("t")), Element("b", {}, Text("t")),
                Element("span", {"source"}, Text("t"))}}

\* What follows a navigation table: text, and elements that would add to a
\* block, switch the target or restore it.
AfterNavigation ==
  {Text("z"),
   Text("z") \o Element("p", {"source"}, Text("s")),
   Element("tr", {}, Element("td", {}, Text("u")) \o Element("td", {}, Text("v"))),
   <<StartTag("br", {}, <<>>)>> \o Element("div", {}, Text("z"))}

\* Text, an element that switches the target and, still inside it, a
\* navigation table with an optional table nested in it; then the end of the
\* element and what follows.
NavigationFragments ==
  {Text("a") \o <<StartTag("div", {"history"}, <<>>)>> \o Text("h")
   \o Element("table", {"nav_tbl"}, nested \o Text("n"))
   \o <<EndTag("div")>> \o after :
     nested \in {<<>>, Element("table", {}, Text("k"))}, after \in AfterNavigation}

\* Markup that is not well nested: an end tag with nothing open, an element
\* closed twice, a classified element never closed or closed by another tag,
\* and two classified elements that overlap.
UnbalancedFragments ==
  {<<EndTag(tag)>> \o Text("a") : tag \in {"div", "p", "span", "td"}}
  \cup {Element(tag, cls, Text("a")) \o <<EndTag(tag)>> \o Text("b") :
           tag \in {"div", "span"}, cls \in ElementClasses}
  \cup {<<StartTag("div", cls, <<>>)>> \o Text("a") \o <<EndTag(tag)>> \o Text("b") :
           cls \in ElementClasses \ {{}}, tag \in {"p", "span", "table"}}
  \cup {<<StartTag("div", {"source"}, <<>>), StartTag(tag, {"history"}, <<>>)>>
         \o Text("a") \o <<EndTag("div")>> \o Text("b") \o <<EndTag(tag)>>
         \o Text("c") \o <<EndTag("div")>> \o Text("d") :
           tag \in {"p", "div"}}

\* One row of n cells, each holding one text.
RECURSIVE Cells(_)
Cells(n) == IF n = 0 THEN <<>> ELSE Cells(n - 1) \o Element("td", {}, Text("c"))

MaxCells == 3

\* A table of one row in an optional classified element: the row has up to
\* MaxCells cells, the first a header cell or a classified cell, and its
\* first cell may hold a nested table of one row.
TableFragments ==
  {Text("a") \o Element("div", cls,
      Element("table", {},
        Element("tr", {},
          Element(first, fcls, Text("h") \o nested) \o Cells(n - 1)))) \o Text("z") :
     cls \in {{}, {"source"}}, first \in {"td", "th"}, fcls \in {{}, {"history"}},
     nested \in {<<>>, Element("table", {}, Element("tr", {}, Cells(2)))},
     n \in 1..MaxCells}

Fragments ==
  NestedFragments \cup LabelFragments \cup NavigationFragments
    \cup UnbalancedFragments \cup TableFragments

FeedInit ==
  /\ feed_events = <<>>
  /\ feed_idx = 1
  /\ parser = NewExtractor
  /\ feed_log = <<>>
  /\ feed_pc = "idle"

\* parser = SectionTextExtractor() for one fragment.
ChooseFragment(events) ==
  /\ feed_pc = "idle"
  /\ feed_events' = events
  /\ feed_pc' = "feeding"
  /\ UNCHANGED <<feed_idx, parser, feed_log>>
  /\ UNCHANGED <<cgaVars, sortVars, labelVars, extractVars, uscVars, crawlVars>>
  /\ UNCHANGED <<desVars, textVars, trimVars, identVars>>

\* The next event of the fragment is of kind t.
NextEventIs(t) ==
  /\ feed_pc = "feeding"
  /\ feed_idx <= Len(feed_events)
  /\ feed_events[feed_idx].t = t

\* A handler raises when it indexes parts by a name that is not one of its
\* keys: the current target at lines 100, 104, 126, 134 and 141, and a saved
\* target once line 131 has made it current.
HandlerRaises(before, after) ==
  \/ before.current_target \notin DOMAIN before.parts
  \/ after.current_target \notin DOMAIN after.parts
  \/ \E i \in 1..Len(after.target_stack) :
        after.target_stack[i][2] \notin DOMAIN after.parts

\* The parser went from its state to after on the next event, or the handler
\* raised and the feed ended there.
Handled(after) ==
  /\ parser' = after
  /\ feed_log' = Append(feed_log, [before |-> parser, after |-> after])
  /\ feed_idx' = feed_idx + 1
  /\ feed_pc' = IF HandlerRaises(parser, after) THEN "error" ELSE feed_pc
  /\ UNCHANGED feed_events
  /\ UNCHANGED <<cgaVars, sortVars, labelVars, extractVars, uscVars, crawlVars>>
  /\ UNCHANGED <<desVars, textVars, trimVars, identVars>>

HandleStartTag ==
  /\ NextEventIs("start")
  /\ Handled(handle_starttag(parser, feed_events[feed_idx].tag, feed_events[feed_idx].cls))

HandleEndTag ==
  /\ NextEventIs("end")
  /\ Handled(handle_endtag(parser, feed_events[feed_idx].tag))

HandleData ==
  /\ NextEventIs("data")
  /\ Handled(handle_data(parser, feed_events[feed_idx].text))

FeedNext ==
  \/ \E events \in Fragments : ChooseFragment(events)
  \/ HandleStartTag
  \/ HandleEndTag
  \/ HandleData

(***************************************************************************)
(* Parsing identifiers                                                     *)
(***************************************************************************)

\* The kinds of level of an identifier path, by the tag that starts their
\* segment: title, subtitle, chapter, subchapter, part, section.
LevelTags == {<<"t">>, <<"s", "t">>, <<"c", "h">>, <<"s", "c", "h">>, <<"p", "t">>, <<"s">>}

LevelNumbers == {<<"2", "6">>, <<"A">>}

\* The most segments an identifier holds after its prefix.
MaxSegments == 3

\* Paths of up to MaxSegments segments, no two of the same kind.
SegmentLists ==
  UNION {{segs \in [1..n -> [tag : LevelTags, num : LevelNumbers]] :
            \A i, j \in 1..n : i # j => segs[i].tag # segs[j].tag} :
         n \in 0..MaxSegments}

IdentPrefixes == {UscPrefix, <<"/", "u", "s", "/", "c", "f", "r", "/">>, <<>>}

IdentifierInputs ==
  [prefix : IdentPrefixes, segs : SegmentLists, slash : BOOLEAN]

\* The identifier string of an input; an empty string stands for a missing
\* identifier attribute as well.
IdentifierOf(in) ==
  in.prefix
  \o Join([i \in 1..Len(in.segs) |-> in.segs[i].tag \o in.segs[i].num], <<"/">>)
  \o (IF in.slash THEN <<"/">> ELSE <<>>)

IdentInit ==
  /\ ident_segments = [prefix |-> <<>>, segs |-> <<>>, slash |-> FALSE]
  /\ ident_str = <<>>
  /\ ident_nums = NoIdentifier
  /\ ident_pc = "idle"

ChooseIdentifier(in) ==
  /\ ident_pc = "idle"
  /\ ident_segments' = in
  /\ ident_str' = IdentifierOf(in)
  /\ ident_pc' = "chosen"
  /\ UNCHANGED ident_nums
  /\ UNCHANGED <<cgaVars, sortVars, labelVars, extractVars, uscVars, crawlVars>>
  /\ UNCHANGED <<desVars, textVars, trimVars, feedVars>>

ParseIdentifier ==
  /\ ident_pc = "chosen"
  /\ ident_nums' = parse_identifier(ident_str)
  /\ ident_pc' = "parsed"
  /\ UNCHANGED <<ident_segments, ident_str>>
  /\ UNCHANGED <<cgaVars, sortVars, labelVars, extractVars, uscVars, crawlVars>>
  /\ UNCHANGED <<desVars, textVars, trimVars, feedVars>>

IdentNext ==
  \/ \E in \in IdentifierInputs : ChooseIdentifier(in)
  \/ ParseIdentifier

UnitInit == DesInit /\ TextInit /\ TrimInit /\ FeedInit /\ IdentInit

(***************************************************************************)
(* The crawler: crawl_cga_statutes.py                                      *)
(*                                                                         *)
(* A URL is the record urlparse makes of it; its path is the sequence of   *)
(* the segments between the slashes.  The content of a page is the list of *)
(* the href values of its <a> tags, as LinkParser collects them.           *)
(***************************************************************************)

Url(scheme, netloc, path, fragment) ==
  [scheme |-> scheme, netloc |-> netloc, path |-> path, fragment |-> fragment]

\* None where the code holds a URL or None.
NoUrl == Url("None", "", <<>>, "")

\* urlparse(BASE_URL).netloc
BaseNetloc == "www.cga.ct.gov"

\* "/current/pub/"
ALLOWED_PREFIX == <<"current", "pub">>

\* href values: mailto: and javascript: links, a full URL, a file name beside
\* the page with an optional fragment, and a bare fragment.
Mailto == [kind |-> "mailto", url |-> NoUrl, file |-> "", fragment |-> ""]

Absolute(url) == [kind |-> "absolute", url |-> url, file |-> "", fragment |-> ""]

Relative(file, fragment) ==
  [kind |-> "relative", url |-> NoUrl, file |-> file, fragment |-> fragment]

FragmentOnly(fragment) ==
  [kind |-> "fragment", url |-> NoUrl, file |-> "", fragment |-> fragment]

\* urllib.parse.urljoin(base_url, href)
urljoin(base_url, href) ==
  IF href.kind = "absolute" THEN href.url
  ELSE IF href.kind = "fragment" THEN [base_url EXCEPT !.fragment = href.fragment]
  ELSE [base_url EXCEPT
          !.path = SubSeq(@, 1, Len(@) - 1) \o <<href.file>>,
          !.fragment = href.fragment]

\* normalize_link with the fragment left on the URL: line 51 returns
\* parsed.geturl().
normalize_link_keep_fragment(href, base_url) ==
  IF href.kind = "mailto" THEN NoUrl
  ELSE LET parsed_url == urljoin(base_url, href)
       IN  IF parsed_url.scheme \notin {"http", "https"} THEN NoUrl
           ELSE IF parsed_url.netloc # BaseNetloc THEN NoUrl
           ELSE IF ~(StartsWith(parsed_url.path, ALLOWED_PREFIX)
                     /\ Len(parsed_url.path) > Len(ALLOWED_PREFIX)) THEN NoUrl
           ELSE parsed_url

\* normalize_link, lines 39-52.
normalize_link(href, base_url) ==
  IF href.kind = "mailto" THEN NoUrl
  ELSE LET parsed_url == urljoin(base_url, href)
       IN  IF parsed_url.scheme \notin {"http", "https"} THEN NoUrl
           ELSE IF parsed_url.netloc # BaseNetloc THEN NoUrl
           ELSE IF ~(StartsWith(parsed_url.path, ALLOWED_PREFIX)
                     /\ Len(parsed_url.path) > Len(ALLOWED_PREFIX)) THEN NoUrl
           ELSE [parsed_url EXCEPT !.fragment = ""]

\* parse_links, lines 67-78: the normalised links of a page, in page order.
parse_links(content, base_url) ==
  SelectSeq([i \in 1..Len(content) |-> normalize_link(content[i], base_url)],
            LAMBDA normalized : normalized # NoUrl)

\* local_path_for_url, lines 55-60, below out_dir.
local_path_for_url(url) ==
  IF url.path # <<>> /\ url.path[Len(url.path)] = ""
  THEN SubSeq(url.path, 1, Len(url.path) - 1) \o <<"index.html">>
  ELSE url.path

\* The pages of the site below the allowed prefix.
PubFiles == {"titles.htm", "a.htm", "b.htm"}

PubUrl(file, fragment) ==
  Url("https", BaseNetloc, ALLOWED_PREFIX \o <<file>>, fragment)

\* The start URLs: START_URL, and the same page given with a fragment.
StartUrls == {PubUrl("titles.htm", ""), PubUrl("titles.htm", "x")}

\* The href values a page is made of: links to a.htm with and without a
\* fragment, to b.htm, to the page itself, and links normalize_link rejects.
Hrefs ==
  {Relative(file, "") : file \in PubFiles \ {"titles.htm"}}
  \cup {Relative("a.htm", "x"), FragmentOnly("x"), Mailto,
        Absolute(Url("https", "example.org", ALLOWED_PREFIX \o <<"a.htm">>, "")),
        Absolute(Url("https", BaseNetloc, <<"other", "b.htm">>, "")),
        Absolute(Url("ftp", BaseNetloc, ALLOWED_PREFIX \o <<"b.htm">>, ""))}

\* The most links on one page.
MaxLinks == 2

\* The contents a fetch may return.
Contents == UNION {[1..n -> Hrefs] : n \in 0..MaxLinks}

CrawlInit ==
  /\ crawl_start = NoUrl
  /\ crawl_queue = <<>>
  /\ crawl_seen = {}
  /\ crawl_saved = {}
  /\ crawl_log = <<>>
  /\ crawl_pc = "idle"

CrawlFrame ==
  /\ UNCHANGED <<cgaVars, sortVars, labelVars, extractVars, uscVars, unitVars>>

\* Lines 82-83.
StartCrawl(start_url) ==
  /\ crawl_pc = "idle"
  /\ crawl_start' = start_url
  /\ crawl_queue' = <<start_url>>
  /\ crawl_seen' = {}
  /\ crawl_pc' = "crawling"
  /\ UNCHANGED <<crawl_saved, crawl_log>>
  /\ CrawlFrame

\* One iteration of the loop has popped url and ended as outcome.
Iterated(url, outcome) ==
  /\ crawl_log' = Append(crawl_log, [url |-> url, outcome |-> outcome])
  /\ UNCHANGED <<crawl_start, crawl_pc>>
  /\ CrawlFrame

\* Lines 85-88: the URL popped is in seen already.
SkipSeen ==
  /\ crawl_pc = "crawling"
  /\ crawl_queue # <<>>
  /\ Head(crawl_queue) \in crawl_seen
  /\ crawl_queue' = Tail(crawl_queue)
  /\ UNCHANGED <<crawl_seen, crawl_saved>>
  /\ Iterated(Head(crawl_queue), "skipped")

\* Lines 85-95: fetch_url raises URLError.
FetchFails ==
  /\ crawl_pc = "crawling"
  /\ crawl_queue # <<>>
  /\ Head(crawl_queue) \notin crawl_seen
  /\ crawl_seen' = crawl_seen \cup {Head(crawl_queue)}
  /\ crawl_queue' = Tail(crawl_queue)
  /\ UNCHANGED crawl_saved
  /\ Iterated(Head(crawl_queue), "failed")

\* Lines 85-106: the page is fetched, saved, and its links not yet seen are
\* appended to the queue.
FetchSaves(content) ==
  /\ crawl_pc = "crawling"
  /\ crawl_queue # <<>>
  /\ Head(crawl_queue) \notin crawl_seen
  /\ crawl_seen' = crawl_seen \cup {Head(crawl_queue)}
  /\ crawl_saved' = crawl_saved \cup {local_path_for_url(Head(crawl_queue))}
  /\ crawl_queue' =
        Tail(crawl_queue)
        \o SelectSeq(parse_links(content, Head(crawl_queue)),
                     LAMBDA link : link \notin crawl_seen')
  /\ Iterated(Head(crawl_queue), "saved")

\* Line 85: the queue is empty and crawl returns.
CrawlReturns ==
  /\ crawl_pc = "crawling"
  /\ crawl_queue = <<>>
  /\ crawl_pc' = "done"
  /\ UNCHANGED <<crawl_start, crawl_queue, crawl_seen, crawl_saved, crawl_log>>
  /\ CrawlFrame

\* The loop of crawl.
CrawlLoop ==
  \/ SkipSeen
  \/ FetchFails
  \/ \E content \in Contents : FetchSaves(content)
  \/ CrawlReturns

CrawlNext ==
  \/ \E start_url \in StartUrls : StartCrawl(start_url)
  \/ SkipSeen
  \/ FetchFails
  \/ \E content \in Contents : FetchSaves(content)
  \/ CrawlReturns

Init ==
  CgaInit /\ SortInit /\ LabelInit /\ ExtractInit /\ UscInit /\ UnitInit /\ CrawlInit

\* Runs of the CGA pipeline on one database.
Spec == Init /\ [][CgaNext]_vars

\* Lists of designators sorted by _natural_key.
SpecSort == Init /\ [][SortNext]_vars

\* Label texts parsed by parse_label.
SpecLabel == Init /\ [][LabelNext]_vars

\* Documents split by extract_sections_from_html.
SpecExtract == Init /\ [][ExtractNext]_vars

\* Title documents processed by main of parse_usc_xml.py.
SpecUsc == Init /\ [][UscNext]_vars

\* Pairs of designators put into their normalized, display and padded forms.
SpecDesignator == Init /\ [][DesNext]_vars

\* Raw block texts normalized by get_text, twice.
SpecText == Init /\ [][TextNext]_vars

\* Normalized bodies trimmed by trim_trailing_headings.
SpecTrim == Init /\ [][TrimNext]_vars

\* Fragments fed to a SectionTextExtractor event by event.
SpecFeed == Init /\ [][FeedNext]_vars

\* Identifier paths parsed by parse_identifier.
SpecIdent == Init /\ [][IdentNext]_vars

\* One run of crawl over any site made of the pages and links above.
SpecCrawl == Init /\ [][CrawlNext]_vars

\* The same with the loop of crawl running on: crawl is sequential code, an
\* iteration is a pop, at most one fetch with a timeout, and a bounded pass
\* over the links of the page, so an iteration that can run does run.
SpecCrawlFair == SpecCrawl /\ WF_vars(CrawlLoop)


(***************************************************************************)
(* Properties of the CGA run                                               *)
(***************************************************************************)

\* The states in which the linking pass of the current run has been applied.
Linked == pc \in {"rollup", "dump_sql", "dump_r2", "dump_idx", "done", "error"}

\* The states in which the rollup of the current run has been applied too.
RolledUp == pc \in {"dump_sql", "dump_r2", "dump_idx", "done", "error"}

\* The row of the store with a section id.
RowOf(section_id) ==
  sections[CHOOSE i \in 1..Len(sections) : sections[i].section_id = section_id]

HasRow(section_id) ==
  \E i \in 1..Len(sections) : sections[i].section_id = section_id

\* The section ids of an ordering, in order.
IdsOf(items) == [i \in 1..Len(items) |-> items[i].section_id]

\* The linker's items of the store.
StoreItems == Items(LinkRows(sections))

\* The title ordering a row with title_id belongs to: none without a title.
TitleScope(items, title_id) ==
  IF Truthy(title_id) THEN TitleOrdering(items, title_id) ELSE <<>>

\* The neighbour the consistency rule allows: the chapter-scope neighbour when
\* the title scope names the same one, null otherwise.
Agreed(chapter_neighbour, title_neighbour) ==
  IF chapter_neighbour # None /\ chapter_neighbour = title_neighbour
  THEN chapter_neighbour ELSE None

Sec_1_1 == <<"s", "e", "c", "_", "1", "-", "1">>
Sec_1_2 == <<"s", "e", "c", "_", "1", "-", "2">>
Sec_1_3 == <<"s", "e", "c", "_", "1", "-", "3">>
Sec_1_4 == <<"s", "e", "c", "_", "1", "-", "4">>
Sec_n   == <<"s", "e", "c", "_", "n">>
Chap_1  == <<"c", "h", "a", "p", "_", "1">>
Title_1 == <<"1">>

\* Chapter order A, B, C and title order A, X, B, C.
InterleavedTitle(items) ==
  /\ IdsOf(ChapterOrdering(items, Chap_1)) = <<Sec_1_1, Sec_1_3, Sec_1_4>>
  /\ IdsOf(TitleOrdering(items, Title_1)) = <<Sec_1_1, Sec_1_2, Sec_1_3, Sec_1_4>>

\* The links of a row follow the consistency rule.
ConsistentLinks(items, row) ==
  LET Check(by_chapter, by_title) ==
        /\ row.next_section_id = Agreed(NextIn(by_chapter, row.section_id),
                                        NextIn(by_title, row.section_id))
        /\ row.prev_section_id = Agreed(PrevIn(by_chapter, row.section_id),
                                        PrevIn(by_title, row.section_id))
  IN  Check(ChapterOrdering(items, row.chapter_id), TitleScope(items, row.title_id))

\* C1: after the linking pass, the next (prev) link of every section that has
\* a section number is its immediate successor (predecessor) in the chapter
\* ordering exactly when the title ordering gives it the same successor
\* (predecessor), and null otherwise; with chapter order A, B, C and title
\* order A, X, B, C the next link of A is null, not B.
C1_LinkConsistency ==
  Linked =>
    LET Rule(items) ==
          /\ \A i \in 1..Len(sections) :
               sections[i].section_number # None => ConsistentLinks(items, sections[i])
          /\ InterleavedTitle(items) => RowOf(Sec_1_1).next_section_id = None
    IN  Rule(StoreItems)

\* The linking pass has run on chapter order A, B, C under title order
\* A, X, B, C: A has no next link, and B and C, neighbours in both scopes, are
\* linked to each other.
C1_Witness ==
  /\ Linked
  /\ InterleavedTitle(StoreItems)
  /\ RowOf(Sec_1_1).next_section_id = None
  /\ RowOf(Sec_1_3).next_section_id = Sec_1_4
  /\ RowOf(Sec_1_4).prev_section_id = Sec_1_3


\* Natural order on designators: maximal digit runs compare by numeric value,
\* other characters by their lowercase code point.
RECURSIVE NaturalLess(_, _)
NaturalLess(a, b) ==
  IF b = <<>> THEN FALSE
  ELSE IF a = <<>> THEN TRUE
  ELSE IF IsDigit(Head(a)) /\ IsDigit(Head(b))
       THEN LET Runs(m, n) ==
                  LET Values(x, y) ==
                        IF x # y THEN x < y
                        ELSE NaturalLess(From(a, m + 1), From(b, n + 1))
                  IN  Values(DigitsToInt(SubSeq(a, 1, m)), DigitsToInt(SubSeq(b, 1, n)))
            IN  Runs(DigitRun(a), DigitRun(b))
  ELSE IF LowerChar(Head(a)) = LowerChar(Head(b))
       THEN NaturalLess(Tail(a), Tail(b))
  ELSE Ord(LowerChar(Head(a))) < Ord(LowerChar(Head(b)))

\* The start and end candidates of a section: the first component of its
\* range start (else of its number), the last component of its range end
\* (else of its number).
StartCandidate(row) ==
  split_range(Or(Or(row.section_range_start, row.section_number), <<>>))[1]

EndCandidate(row) ==
  split_range(Or(Or(row.section_range_end, row.section_number), <<>>))[2]

\* The non-empty candidates of the members of a chapter.
StartCandidates(members) ==
  {StartCandidate(members[i]) : i \in 1..Len(members)} \ {<<>>}

EndCandidates(members) ==
  {EndCandidate(members[i]) : i \in 1..Len(members)} \ {<<>>}

\* The designators of the members of a chapter.
Designators(members) ==
  {members[i].section_number : i \in 1..Len(members)}

D_12_99  == <<"1", "2", "-", "9", "9">>
D_12_100 == <<"1", "2", "-", "1", "0", "0">>
D_12_104 == <<"1", "2", "-", "1", "0", "4">>
D_Range  == <<"1", "2", "-", "1", "0", "0", " ", "t", "o", " ", "1", "2", "-", "1", "0", "4">>

\* section_start and section_end of a chapter row are the natural-order
\* minimum and maximum of the candidates of its members.
NaturalBounds(row, members) ==
  /\ StartCandidates(members) # {} =>
       /\ row.section_start \in StartCandidates(members)
       /\ \A s \in StartCandidates(members) : ~NaturalLess(s, row.section_start)
  /\ EndCandidates(members) # {} =>
       /\ row.section_end \in EndCandidates(members)
       /\ \A e \in EndCandidates(members) : ~NaturalLess(row.section_end, e)
  /\ Designators(members) = {D_12_100, D_Range, D_12_99} =>
       row.section_start = D_12_99 /\ row.section_end = D_12_104

\* C2: after the rollup, section_start of every chapter is the natural-order
\* minimum of the start candidates of its sections and section_end the
\* natural-order maximum of their end candidates; a chapter with designators
\* "12-100", "12-100 to 12-104" and "12-99" reports "12-99" and "12-104".
C2_NaturalRollup ==
  RolledUp =>
    \A c \in DOMAIN chapters :
      LET Holds(members) == members # <<>> => NaturalBounds(chapters[c], members)
      IN  Holds(ChapterMembers(sections, c))


\* The link columns of a row are all null.
Unlinked(row) ==
  /\ row.prev_section_id = None
  /\ row.next_section_id = None
  /\ row.prev_section_label = None
  /\ row.next_section_label = None

\* The content columns and chapter_id of a row are those of an ingest.
Carries(row, ingest) ==
  [row EXCEPT !.prev_section_id = None, !.next_section_id = None,
              !.prev_section_label = None, !.next_section_label = None]
    = SectionRow(ingest.section, row.source_file, ingest.chapter_id)

\* C4: whatever has been ingested so far, over documents and runs, the store
\* holds one record per section_id, the record carries the field values and
\* the chapter_id of the most recent ingest of that id, and the link fields
\* of a record ingested since the last linking pass are null.
C4_ReplaceOnIngest ==
  /\ \A i, j \in 1..Len(sections) :
       i # j => sections[i].section_id # sections[j].section_id
  /\ \A id \in DOMAIN last_ingest : HasRow(id)
  /\ \A i \in 1..Len(sections) :
       /\ sections[i].section_id \in DOMAIN last_ingest
       /\ Carries(sections[i], last_ingest[sections[i].section_id])
       /\ sections[i].section_id \in fresh => Unlinked(sections[i])

\* A section that the previous run left linked, in another chapter and under
\* another title text, has been ingested again and not yet linked.
C4_Witness ==
  /\ pc = "link"
  /\ \E i \in 1..Len(sections) : \E j \in 1..Len(snapshot.sections) :
       /\ sections[i].section_id \in fresh
       /\ snapshot.sections[j].section_id = sections[i].section_id
       /\ snapshot.sections[j].next_section_id # None
       /\ snapshot.sections[j].section_title # sections[i].section_title
       /\ snapshot.sections[j].chapter_id # sections[i].chapter_id
       /\ Unlinked(sections[i])

\* The text blocks and the link assignment of a section record.
BlocksAndLinks(row) ==
  [section_id         |-> row.section_id,
   body               |-> row.body,
   history_short      |-> row.history_short,
   history_long       |-> row.history_long,
   citations          |-> row.citations,
   see_also           |-> row.see_also,
   prev_section_id    |-> row.prev_section_id,
   next_section_id    |-> row.next_section_id,
   prev_section_label |-> row.prev_section_label,
   next_section_label |-> row.next_section_label]

BlocksAndLinksOf(rows) == {BlocksAndLinks(rows[i]) : i \in 1..Len(rows)}

\* The full pass of this run is over, on the store the previous run left and
\* over the document set of the previous run.
SecondPass == run >= 2 /\ docs = prev_docs /\ RolledUp

\* C5: a second full pass (ingest of every document, linking, rollup) on the
\* same store over the same document set leaves the text blocks and the links
\* of every section and the summary of every chapter as the first pass left
\* them.
C5_SecondPassIdentical ==
  SecondPass =>
    /\ BlocksAndLinksOf(sections) = BlocksAndLinksOf(snapshot.sections)
    /\ chapters = snapshot.chapters

\* A second pass over chapters 1 and 2 is over: the store holds a confirmed
\* link, a suppressed one and a chapter summary.
C5_Witness ==
  /\ SecondPass
  /\ pc = "done"
  /\ HasRow(Sec_1_1) /\ HasRow(Sec_1_3) /\ HasRow(Sec_1_2)
  /\ RowOf(Sec_1_1).chapter_id = Chap_1
  /\ RowOf(Sec_1_1).next_section_id = None
  /\ RowOf(Sec_1_3).next_section_id = Sec_1_4
  /\ Chap_1 \in DOMAIN chapters
  /\ chapters[Chap_1].section_count = 3

\* C7: whatever the document set, a run of the CGA pipeline (ingest, linking,
\* rollup, dump_import_sql, dump_r2_content, dump_r2_level_indexes) never
\* enters an error state, also when no section of a chapter has a title_id
\* or a chapter record has no member section.
C7_NoErrorState == pc # "error"

\* No row of the store names section_id as its neighbour.
Unreferenced(section_id) ==
  \A i \in 1..Len(sections) :
    /\ sections[i].prev_section_id # section_id
    /\ sections[i].next_section_id # section_id

\* C9: after the linking pass, a section whose title_id is null or empty has
\* a null prev_section_id and a null next_section_id, though it has a place
\* in the ordering of its chapter, and no section names it as its previous or
\* next section.
C9_UntitledUnlinked ==
  Linked =>
    \A i \in 1..Len(sections) :
      ~Truthy(sections[i].title_id) =>
        /\ sections[i].prev_section_id = None
        /\ sections[i].next_section_id = None
        /\ Unreferenced(sections[i].section_id)

\* The linking pass has run on a chapter whose ordering holds a section with
\* a title_id followed by one without: neither is linked to the other.
C9_Witness ==
  /\ Linked
  /\ HasRow(Sec_n) /\ HasRow(Sec_1_1)
  /\ ~Truthy(RowOf(Sec_n).title_id)
  /\ RowOf(Sec_n).section_number # None
  /\ IdsOf(ChapterOrdering(StoreItems, RowOf(Sec_n).chapter_id)) = <<Sec_1_1, Sec_n>>
  /\ RowOf(Sec_n).prev_section_id = None
  /\ RowOf(Sec_1_1).next_section_id = None

\* C16: after a full CGA pass every section record's chapter_id identifies
\* an existing chapter record: the record is created whenever a section is
\* ingested under that chapter_id, whether or not a chapter title could be
\* extracted from the document, and it carries the rollup summary.
C16_ChapterOfEverySection ==
  RolledUp =>
    \A i \in 1..Len(sections) :
      /\ sections[i].chapter_id \in DOMAIN chapters
      /\ chapters[sections[i].chapter_id].section_count # NullInt

Sec_1_0 == <<"s", "e", "c", "_", "1", "-", "0">>

\* C27: after update_prev_next the links are symmetric and form simple
\* chains: for all sections A and B, A.next_section_id = B if and only if
\* B.prev_section_id = A; so no section is the next, or the prev, of two
\* different sections, no section links to itself, and linked sections
\* share the same chapter_id and the same title_id.
C27_SymmetricChains ==
  Linked =>
    \A a, b \in 1..Len(sections) :
      LET A == sections[a]
          B == sections[b]
      IN  /\ (A.next_section_id = B.section_id) <=> (B.prev_section_id = A.section_id)
          /\ (A.next_section_id = B.section_id) =>
                /\ a # b
                /\ A.chapter_id = B.chapter_id
                /\ A.title_id = B.title_id
                /\ \A c \in 1..Len(sections) :
                      /\ sections[c].next_section_id = B.section_id => c = a
                      /\ sections[c].prev_section_id = A.section_id => c = b
          /\ A.next_section_id # None => HasRow(A.next_section_id)
          /\ A.prev_section_id # None => HasRow(A.prev_section_id)

\* The store after a linking pass over chap_1 (1-1, 1-3, 1-4) and chap_2
\* (id sec_1-0, 1-1 moved there, 1-2): in chap_2 the chain sec_1-0, sec_1-1,
\* sec_1-2 is linked in both directions and ends at both ends, and in chap_1
\* the chain 1-3, 1-4 is linked.
C27_Witness ==
  /\ Linked
  /\ HasRow(Sec_1_0) /\ HasRow(Sec_1_1) /\ HasRow(Sec_1_2) /\ HasRow(Sec_1_3)
  /\ RowOf(Sec_1_0).prev_section_id = None
  /\ RowOf(Sec_1_0).next_section_id = Sec_1_1
  /\ RowOf(Sec_1_1).prev_section_id = Sec_1_0
  /\ RowOf(Sec_1_1).next_section_id = Sec_1_2
  /\ RowOf(Sec_1_2).prev_section_id = Sec_1_1
  /\ RowOf(Sec_1_2).next_section_id = None
  /\ RowOf(Sec_1_3).chapter_id # RowOf(Sec_1_2).chapter_id

\* C29: in the CGA serialization (dump_import_sql and dump_r2_content),
\* distinct section records are given distinct doc_id values and distinct
\* content paths, so exactly one documents row and one content file exist
\* per section record and no section's content file is overwritten by
\* another section's.
C29_DistinctDocuments ==
  pc = "done" =>
    /\ \A a, b \in 1..Len(sections) :
          a # b => /\ DocId(sections[a]) # DocId(sections[b])
                   /\ SectionSlug(sections[a]) # SectionSlug(sections[b])
    /\ Len(sql_documents) = Len(sections)
    /\ \A a, b \in 1..Len(sql_documents) :
          a # b => sql_documents[a].doc_id # sql_documents[b].doc_id
    /\ \A a \in 1..Len(sections) :
          LET path == SectionSlug(sections[a]) \o JsonExt
          IN  /\ path \in DOMAIN r2_files
              /\ r2_files[path].section_id = sections[a].section_id

\* The number of section records whose chapter_id is chapter_id.
SectionsIn(chapter_id) ==
  Cardinality({i \in 1..Len(sections) : sections[i].chapter_id = chapter_id})

\* C23: after each full pass, a later pass on the same store in which
\* sections have moved to another chapter or a chapter's document no longer
\* yields sections included, every chapter record's section_count equals
\* the number of section records whose chapter_id is that chapter.
C23_SectionCountMatches ==
  RolledUp =>
    \A c \in DOMAIN chapters : chapters[c].section_count = SectionsIn(c)

\* The value the sort key is to be derived from: range_start, else
\* section_number, else the cleaned raw identifier.
PreferredValue(row) ==
  IF row.section_range_start # None THEN row.section_range_start
  ELSE IF row.section_number # None THEN row.section_number
  ELSE CleanId(row.section_id)

\* The maximal digit runs of str, in order.
RECURSIVE DigitRuns(_)
DigitRuns(str) ==
  IF str = <<>> THEN <<>>
  ELSE IF IsDigit(Head(str))
       THEN <<SubSeq(str, 1, DigitRun(str))>> \o DigitRuns(From(str, DigitRun(str) + 1))
       ELSE DigitRuns(Tail(str))

\* key is value with every digit run zero-padded to the key width and every
\* other character lowercased: nothing is upper case, every digit run has
\* at least the key width and the number of the run in value.
PaddedLowercased(key, value) ==
  /\ \A i \in 1..Len(key) : ~IsUpper(key[i])
  /\ Len(DigitRuns(key)) = Len(DigitRuns(value))
  /\ \A i \in 1..Len(DigitRuns(key)) :
        /\ Len(DigitRuns(key)[i]) >= PaddedKeyWidth
        /\ DigitsToInt(DigitRuns(key)[i]) = DigitsToInt(DigitRuns(value)[i])
  /\ Lower(SelectSeq(value, LAMBDA c : ~IsDigit(c)))
       = SelectSeq(key, LAMBDA c : ~IsDigit(c))

\* C24: in update_prev_next the sort key of a section, in the title and in
\* the chapter ordering alike, is derived from range_start when it is
\* non-null, otherwise from section_number when it is non-null, and from the
\* cleaned raw identifier only when both are absent; the key zero-pads every
\* digit run and lowercases the rest.
C24_SortValuePreference ==
  Linked =>
    \A i \in 1..Len(StoreItems) :
      LET row == RowOf(StoreItems[i].section_id)
      IN  /\ StoreItems[i].sort_key = _padded_key(PreferredValue(row))
          /\ PaddedLowercased(StoreItems[i].sort_key, PreferredValue(row))

(***************************************************************************)
(* Properties of the natural sort key                                      *)
(***************************************************************************)

\* C3: sorting by _natural_key orders designators by natural order, digit
\* runs compared by numeric value, so that a bare number comes right before
\* the same number with a letter suffix and before every larger number:
\* ["2", "10", "3a", "3"] sorts to ["2", "3", "3a", "10"].
C3_NaturalSort ==
  sort_pc = "sorted" =>
    /\ \A i, j \in 1..Len(ordered) : i < j => ~NaturalLess(ordered[j], ordered[i])
    /\ designators = << <<"2">>, <<"1", "0">>, <<"3", "a">>, <<"3">> >> =>
         ordered = << <<"2">>, <<"3">>, <<"3", "a">>, <<"1", "0">> >>


(***************************************************************************)
(* Properties of the label parser                                          *)
(***************************************************************************)

ExampleLabel == <<"S", "e", "c", "s", ".", " ", "1", "-", "1", " ", "t", "o", " ", "1", "-", "5", ".", " ", "G", "e", "n", "e", "r", "a", "l", " ", "P", "r", "o", "v", "i", "s", "i", "o", "n", "s", ".">>

\* The label is plural and its first two designators are joined by "to".
PluralRange ==
  pieces.prefix = <<"S", "e", "c", "s", ".">> /\ pieces.sep \in RangeWords

\* C10: for a plural label "Secs. <first> to <last>. <title>", "to" in any
\* case, parse_label returns the whole designator text as section_number,
\* <first> as range_start, <last> as range_end and <title> as title; when the
\* designator list goes on after a comma, range_end ends before the first
\* comma.  "Secs. 1-1 to 1-5. General Provisions." gives range_start "1-1",
\* range_end "1-5" and title "General Provisions.".
C10_PluralRange ==
  label_pc = "parsed" =>
    /\ PluralRange =>
         /\ parsed.number = pieces.first \o pieces.sep \o pieces.last \o pieces.rest
         /\ parsed.range_start = pieces.first
         /\ parsed.range_end = pieces.last
         /\ parsed.title = Or(pieces.title, None)
    /\ label = ExampleLabel =>
         parsed = [number      |-> <<"1", "-", "1", " ", "t", "o", " ", "1", "-", "5">>,
                   title       |-> <<"G", "e", "n", "e", "r", "a", "l", " ", "P", "r", "o", "v", "i", "s", "i", "o", "n", "s", ".">>,
                   range_start |-> <<"1", "-", "1">>,
                   range_end   |-> <<"1", "-", "5">>]

\* A plural label whose range word is upper case and whose designator list
\* goes on after a comma has been parsed: the range ends before the comma.
C10_Witness ==
  /\ label_pc = "parsed"
  /\ PluralRange
  /\ pieces.sep = <<" ", "T", "O", " ">>
  /\ pieces.rest = <<",", " ", "1", "-", "9">>
  /\ pieces.title # <<>>
  /\ pieces.first # pieces.last
  /\ parsed.range_start = pieces.first
  /\ parsed.range_end = pieces.last
  /\ parsed.title = pieces.title

\* The designator list as the label writes it.
DesignatorList == pieces.first \o pieces.sep \o pieces.last \o pieces.rest

\* Whether text holds the range word "to" between whitespace, in any case.
HasRangeWord(text) ==
  \E i \in 1..Len(text) - 3 : Lower(SubSeq(text, i, i + 3)) = <<" ", "t", "o", " ">>

\* C11: every label parse_label accepts (section_number non-null) has
\* range_start and range_end non-null: the first and last designators when
\* the list holds "<first> to <last>", and both equal to section_number when
\* the list holds no "to", for singular "Sec." labels and for plural "Secs."
\* labels such as a comma-separated list.
C11_RangeOfAcceptedLabel ==
  (label_pc = "parsed" /\ parsed.number # None) =>
    /\ parsed.range_start # None
    /\ parsed.range_end # None
    /\ PluralRange =>
         /\ parsed.range_start = pieces.first
         /\ parsed.range_end = pieces.last
    /\ ~HasRangeWord(DesignatorList) =>
         /\ parsed.range_start = parsed.number
         /\ parsed.range_end = parsed.number

\* C12: for every label text, matching or not, singular or plural,
\* parse_label returns range_start and range_end both null or both non-null.
C12_RangeBothOrNeither ==
  label_pc = "parsed" => ((parsed.range_start = None) <=> (parsed.range_end = None))

\* A plural list whose range word comes after two comma-separated designators
\* has been parsed: both ends are set, the start running up to the range word.
C12_Witness ==
  /\ label_pc = "parsed"
  /\ pieces.prefix = <<"S", "e", "c", "s", ".">>
  /\ pieces.sep = <<",", " ">>
  /\ pieces.rest = <<",", " ", "2", "-", "1", " ", "t", "o", " ", "2", "-", "3">>
  /\ parsed.number = DesignatorList
  /\ parsed.range_start = pieces.first \o pieces.sep \o pieces.last \o <<",", " ", "2", "-", "1">>
  /\ parsed.range_end = <<"2", "-", "3">>

(***************************************************************************)
(* Properties of the designator forms                                      *)
(***************************************************************************)

\* C13: for every designator string d, of the shape digits with an optional
\* letter suffix in either case and optional leading zeros or not of that
\* shape, normalize_designator(format_designator_display(normalize_designator(d)))
\* equals normalize_designator(d).
C13_DesignatorRoundTrip ==
  des_pc = "formatted" =>
    \A i \in 1..2 : des_forms[i].renormalized = des_forms[i].normalized

\* The numeric value of a shaped designator's digits.
DesignatorValue(d) == DigitsToInt(d.zeros \o d.digits)

\* Both designators are digits with an optional letter suffix, the digits
\* without leading zeros being at most PaddedWidth long.
ShapedPair ==
  \A i \in 1..2 : des_in[i].shaped /\ DesignatorValue(des_in[i]) < 10 ^ PaddedWidth

\* The order by (numeric value, lowercased suffix).
ValueSuffixLess(a, b) ==
  \/ DesignatorValue(a) < DesignatorValue(b)
  \/ /\ DesignatorValue(a) = DesignatorValue(b)
     /\ StrLess(Lower(a.suffix), Lower(b.suffix))

\* C17: for any two designators <digits><optional letter suffix> whose digits
\* without leading zeros are at most 4, the lexicographic order of the padded
\* forms is the order by (numeric value, lowercased suffix); equal inputs have
\* equal padded forms; and format_designator_padded(normalize_designator(d))
\* equals format_designator_padded(d).
C17_PaddedOrder ==
  (des_pc = "formatted" /\ ShapedPair) =>
    /\ StrLess(des_forms[1].padded, des_forms[2].padded)
         <=> ValueSuffixLess(des_in[1], des_in[2])
    /\ des_in[1].text = des_in[2].text => des_forms[1].padded = des_forms[2].padded
    /\ \A i \in 1..2 : des_forms[i].padded_normalized = des_forms[i].padded

(***************************************************************************)
(* Properties of the block text normalization                              *)
(***************************************************************************)

\* C14: the normalization of get_text (whitespace runs within a line become
\* one space, consecutive blank lines become one, leading and trailing blank
\* lines go) is idempotent: normalizing the normalized text of any raw text
\* over spaces, line breaks and ordinary characters returns it unchanged.
C14_NormalizeIdempotent ==
  text_pc = "twice" => text_twice = text_once

\* Two raw texts the first pass changes have been normalized twice: three
\* line breaks in a row between two lines, and a run of three spaces.
C14_Witness ==
  /\ text_pc = "twice"
  /\ \/ /\ raw_text = <<"a", "\n", "\r", "\n", "a">>
        /\ text_once = <<"a", "\n", "\n", "a">>
     \/ /\ raw_text = <<"a", " ", " ", " ", "a">>
        /\ text_once = <<"a", " ", "a">>
  /\ text_twice = text_once

(***************************************************************************)
(* Properties of the trailing-heading trim                                 *)
(***************************************************************************)

\* The lengths of the line-prefixes of the body that end in a line which is
\* neither blank nor a structural heading.
KeptPrefixes ==
  {n \in 1..Len(body_lines) : body_lines[n] # BlankLine /\ ~body_lines[n].heading}

\* The longest such prefix, joined; the empty string when there is none.
LongestKeptPrefix ==
  IF KeptPrefixes = {} THEN <<>>
  ELSE Join(TextsOf(SubSeq(body_lines, 1,
                           CHOOSE n \in KeptPrefixes : \A k \in KeptPrefixes : k <= n)),
            <<"\n">>)

\* C15: for every normalized body text, trim_trailing_headings removes only
\* a suffix of lines: it returns the longest line-prefix whose last line is
\* non-blank and no structural heading (PART/SUBPART/ARTICLE/CHAPTER with a
\* roman or arabic numeral, an all-caps line of at most 80 characters, a
\* single parenthesized capital letter or roman numeral), or the empty string
\* if there is none; a heading followed by a non-heading line stays.  The
\* lines "Body text.", "", "ARTICLE II" trim to "Body text.".
C15_TrimsLongestHeadingSuffix ==
  trim_pc = "trimmed" =>
    /\ trimmed = LongestKeptPrefix
    /\ TextsOf(body_lines) = <<<<"B", "o", "d", "y", " ", "t", "e", "x", "t", ".">>, <<>>, <<"A", "R", "T", "I", "C", "L", "E", " ", "I", "I">>>> =>
         trimmed = <<"B", "o", "d", "y", " ", "t", "e", "x", "t", ".">>

\* A body that opens with a heading and ends in two headings has been
\* trimmed: the opening heading and the text stay.
C15_Witness ==
  /\ trim_pc = "trimmed"
  /\ TextsOf(body_lines) = <<<<"G", "E", "N", "E", "R", "A", "L", " ", "P", "R", "O", "V", "I", "S", "I", "O", "N", "S">>, <<"B", "o", "d", "y", " ", "t", "e", "x", "t", ".">>,
                            <<"A", "R", "T", "I", "C", "L", "E", " ", "I", "I">>, <<"(", "I", "V", ")">>>>
  /\ trimmed = <<"G", "E", "N", "E", "R", "A", "L", " ", "P", "R", "O", "V", "I", "S", "I", "O", "N", "S">> \o <<"\n">> \o <<"B", "o", "d", "y", " ", "t", "e", "x", "t", ".">>

(***************************************************************************)
(* Properties of the extractor                                             *)
(***************************************************************************)

\* The start tags still open before event k of a well-nested fragment, as
\* their positions, outermost first; br and hr open nothing.
RECURSIVE OpenBefore(_, _)
OpenBefore(events, k) ==
  IF k <= 1 THEN <<>>
  ELSE LET Step(open, e) ==
             IF e.t = "start" /\ e.tag \notin {"br", "hr"} THEN Append(open, k - 1)
             ELSE IF e.t = "end" THEN SubSeq(open, 1, Len(open) - 1)
             ELSE open
       IN  Step(OpenBefore(events, k - 1), events[k - 1])

\* Every end tag of events closes the innermost open element, and nothing is
\* left open (br and hr open nothing); open holds the tags still open.
RECURSIVE WellNestedFrom(_, _)
WellNestedFrom(events, open) ==
  IF events = <<>> THEN open = <<>>
  ELSE LET e == Head(events)
       IN  IF e.t = "start" /\ e.tag \notin {"br", "hr"}
           THEN WellNestedFrom(Tail(events), Append(open, e.tag))
           ELSE IF e.t = "end"
           THEN /\ open # <<>>
                /\ open[Len(open)] = e.tag
                /\ WellNestedFrom(Tail(events), SubSeq(open, 1, Len(open) - 1))
           ELSE WellNestedFrom(Tail(events), open)

WellNested(events) == WellNestedFrom(events, <<>>)

IsClassified(e) == ClassifyTarget(e.cls) # ""

IsLabelStart(e) == e.t = "start" /\ e.tag = "span" /\ "catchln" \in e.cls

IsNavStart(e) == e.t = "start" /\ e.tag = "table" /\ "nav_tbl" \in e.cls

\* Event k lies inside a label span.
InLabel(k) ==
  \E i \in Range(OpenBefore(feed_events, k)) : IsLabelStart(feed_events[i])

\* A navigation table has started before event k.
NavBefore(k) == \E j \in 1..(k - 1) : IsNavStart(feed_events[j])

\* The classified elements open before event k, outermost first.
ClassifiedOpen(k) ==
  LET Test(i) == IsClassified(feed_events[i])
  IN  SelectSeq(OpenBefore(feed_events, k), Test)

\* The text event k was appended to the block of target.
AppendedTo(k, target) ==
  feed_log[k].after.parts[target]
    = Append(feed_log[k].before.parts[target], feed_events[k].text)

\* C18: in a well-nested event sequence every text event between the start
\* tag of an element classified as history_short, history_long, citations or
\* see_also and that element's own end tag is appended to the block of the
\* innermost classified element around it, and after the element's end tag
\* the current target is again the one that was current before the element
\* opened; for every tag name, tr included, and when the element holds
\* unclassified descendants of the same tag name.
C18_ClassifiedElementScope ==
  \A k \in 1..Len(feed_log) :
    (WellNested(feed_events) /\ ~NavBefore(k) /\ ~InLabel(k)) =>
      LET Inside(open, classified) ==
            /\ (feed_events[k].t = "data" /\ classified # <<>>) =>
                 AppendedTo(k, ClassifyTarget(feed_events[classified[Len(classified)]].cls))
            /\ (feed_events[k].t = "end" /\ open # <<>>
                   /\ IsClassified(feed_events[open[Len(open)]])) =>
                 feed_log[k].after.current_target
                   = feed_log[open[Len(open)]].before.current_target
      IN  Inside(OpenBefore(feed_events, k), ClassifiedOpen(k))

\* C19: no text between the start tag of a label span (class catchln) and
\* that span's own end tag is appended to any of the five blocks, whatever
\* the span holds, nested span elements included.
C19_LabelTextExcluded ==
  \A k \in 1..Len(feed_log) :
    (feed_events[k].t = "data" /\ InLabel(k)) =>
      feed_log[k].after.parts = feed_log[k].before.parts

\* A navigation table has started among the events handled so far.
NavSeen == NavBefore(feed_idx)

\* C20: once a table start tag whose class includes nav_tbl has been
\* processed, no later start tag, end tag or text event changes a block
\* buffer, the current target or the target stack: extraction does not
\* resume, not even after the navigation table and the tables nested in it
\* have closed.
C20_NavigationTableStops ==
  [][NavSeen =>
       /\ parser'.parts = parser.parts
       /\ parser'.current_target = parser.current_target
       /\ parser'.target_stack = parser.target_stack]_vars

\* A fragment whose navigation table holds a nested table and is followed by
\* the end of the element around it, text and a classified paragraph has
\* been fed to its end: the blocks, the target and the stack are those of
\* the moment the navigation table started.
C20_Witness ==
  /\ feed_pc = "feeding"
  /\ feed_idx = Len(feed_events) + 1
  /\ feed_events \in NavigationFragments
  /\ Len(feed_events) = 14
  /\ IsClassified(feed_events[12])
  /\ parser.parts = [x \in Targets |->
                       IF x = "body" THEN << <<"a">> >>
                       ELSE IF x = "history_long" THEN << <<"\n">>, <<"h">> >>
                       ELSE <<>>]
  /\ parser.current_target = "history_long"
  /\ parser.target_stack = << <<"div", "body">> >>

\* Event k is an end tag that finds target_stack empty or topped by an entry
\* recorded for another tag.
UnmatchedEnd(k) ==
  LET stack == feed_log[k].before.target_stack
  IN  /\ feed_events[k].t = "end"
      /\ \/ stack = <<>>
         \/ stack[Len(stack)][1] # feed_events[k].tag

\* C21: an end tag whose name differs from the tag recorded at the top of
\* target_stack, or that arrives when target_stack is empty, leaves
\* target_stack and current_target unchanged; and no sequence of start-tag,
\* end-tag and text events, well nested or not, makes a handler raise.
C21_MismatchedEndIgnored ==
  /\ feed_pc # "error"
  /\ \A k \in 1..Len(feed_log) :
        UnmatchedEnd(k) =>
          /\ feed_log[k].after.target_stack = feed_log[k].before.target_stack
          /\ feed_log[k].after.current_target = feed_log[k].before.current_target

\* Two overlapping classified elements have been fed to the end: the end tag
\* of the outer div arrived while the inner p was on top of the stack and
\* was ignored, the text after it went to the block of the p, and the two
\* later end tags restored history_short and then body.
C21_Witness ==
  /\ feed_pc = "feeding"
  /\ feed_idx = Len(feed_events) + 1
  /\ feed_events \in UnbalancedFragments
  /\ ~WellNested(feed_events)
  /\ Len(feed_events) = 9
  /\ feed_events[2].tag = "p"
  /\ UnmatchedEnd(4)
  /\ feed_log[4].before.target_stack = << <<"div", "body">>, <<"p", "history_short">> >>
  /\ feed_log[5].after.parts["history_long"] = << <<"\n">>, <<"a">>, <<"\n">>, <<"b">> >>
  /\ feed_log[6].after.current_target = "history_short"
  /\ parser.target_stack = <<>>
  /\ parser.current_target = "body"
  /\ parser.parts["body"] = << <<"\n">>, <<"d">> >>

IsCellStart(e) == e.t = "start" /\ e.tag \in {"td", "th"}

\* The position of the start tag of the innermost row open before event k,
\* 0 outside every row.
RowAround(k) ==
  LET IsRow(i) == feed_events[i].tag = "tr"
      rows == SelectSeq(OpenBefore(feed_events, k), IsRow)
  IN  IF rows = <<>> THEN 0 ELSE rows[Len(rows)]

\* The cells of the row around the cell start k that started before it.
EarlierCells(k) ==
  {j \in 1..(k - 1) : IsCellStart(feed_events[j]) /\ RowAround(j) = RowAround(k)}

\* Handling event k appended one separator token to one block and changed
\* nothing else in the blocks.
SeparatorAt(k) ==
  \E target \in Targets :
    feed_log[k].after.parts =
      [feed_log[k].before.parts EXCEPT ![target] = Append(@, <<" ", "|", " ">>)]

\* The buffer of the current target ends with a line break after event k.
LineBrokenAt(k) ==
  LET buf == feed_log[k].after.parts[feed_log[k].after.current_target]
  IN  buf # <<>> /\ EndsWithNewline(buf[Len(buf)])

\* C22: in every table row the first cell (td or th) emits no separator and
\* every later cell of the same row emits exactly one " | " token, so a row
\* of n cells gets n - 1 separators, and the end of the row leaves the
\* current target ending with a line break; for every row, the outer row
\* whose cells follow a nested table inside that row included.
C22_RowSeparators ==
  \A k \in 1..Len(feed_log) :
    (WellNested(feed_events) /\ ~NavBefore(k) /\ ~InLabel(k)) =>
      /\ (IsCellStart(feed_events[k]) /\ RowAround(k) # 0) =>
           IF EarlierCells(k) = {}
           THEN feed_log[k].after.parts = feed_log[k].before.parts
           ELSE SeparatorAt(k)
      /\ (feed_events[k].t = "end" /\ feed_events[k].tag = "tr") => LineBrokenAt(k)

\* The target that became current when entry i of the stack was pushed: the
\* target saved by the entry above it, or the current target for the top.
CurrentAbove(self, i) ==
  IF i < Len(self.target_stack) THEN self.target_stack[i + 1][2]
  ELSE self.current_target

\* C28: in every reachable state of SectionTextExtractor, current_target is
\* one of the five block names, and whenever target_stack is empty
\* current_target is "body"; each stack entry's saved target differs from
\* the target that became current when that entry was pushed.
C28_TargetStackInvariant ==
  /\ parser.current_target \in Targets
  /\ parser.target_stack = <<>> => parser.current_target = "body"
  /\ \A i \in 1..Len(parser.target_stack) :
        parser.target_stack[i][2] # CurrentAbove(parser, i)
  /\ \A k \in 1..Len(feed_log) :
        LET before == feed_log[k].before
            after  == feed_log[k].after
        IN  Len(after.target_stack) > Len(before.target_stack) =>
              /\ after.target_stack[Len(after.target_stack)][2] = before.current_target
              /\ after.current_target # before.current_target

\* A fragment has been fed to its end: two classified elements were open at
\* once, the inner one saving a target other than "body", and both were
\* closed again, which left the stack empty and "body" current.
C28_Witness ==
  /\ feed_pc = "feeding"
  /\ feed_idx > Len(feed_events)
  /\ WellNested(feed_events)
  /\ parser.target_stack = <<>>
  /\ parser.current_target = "body"
  /\ \E k \in 1..Len(feed_log) :
        /\ Len(feed_log[k].after.target_stack) = 2
        /\ feed_log[k].after.target_stack[1][2] = "body"
        /\ feed_log[k].after.target_stack[2][2] # "body"
        /\ feed_log[k].after.current_target \notin {"body", feed_log[k].after.target_stack[2][2]}

(***************************************************************************)
(* Properties of the splitter                                              *)
(***************************************************************************)

\* The label text does not match the label grammar.
Unparseable(text) == ~Truthy(text) \/ ~SECTION_LABEL_RE(text).ok

\* The five text blocks of a section are those of its own markup.
OwnBlocks(section, i) ==
  LET Same(text_blocks) ==
        /\ section.body = trim_trailing_headings(text_blocks["body"])
        /\ section.history_short = text_blocks["history_short"]
        /\ section.history_long = text_blocks["history_long"]
        /\ section.citations = text_blocks["citations"]
        /\ section.see_also = text_blocks["see_also"]
        /\ \A b \in {section.body, section.history_short, section.history_long,
                     section.citations, section.see_also} : b # None
  IN  Same(extract_text_blocks(SecElem(SectionIdAt(i), written[i].label,
                                       written[i].markup)))

\* The section emitted for an unparseable label: the id, the label (the id
\* when the span is empty), the blocks, and null identifier fields.
EmittedUnparsed(section, i) ==
  /\ section.section_id = SectionIdAt(i)
  /\ section.section_label = Or(Strip(written[i].label), SectionIdAt(i))
  /\ section.section_number = None
  /\ section.section_title = None
  /\ section.section_range_start = None
  /\ section.section_range_end = None
  /\ section.title_id = None
  /\ OwnBlocks(section, i)

\* The sections other than the i-th are emitted as they are from the document
\* that has a well-formed label in place of the i-th.
OthersUnaffected(i) ==
  \A good \in GoodLabels :
    LET Same(reference) ==
          /\ Len(reference) = Len(emitted)
          /\ \A j \in 1..Len(emitted) : j # i => reference[j] = emitted[j]
    IN  Same(extract_sections_from_html(
               DocumentOf([written EXCEPT ![i].label = good])))

\* C8: for a section whose label text does not match the label grammar,
\* parse_label returns null for number, title, range_start and range_end; the
\* section is still emitted with its section_id, label and five text blocks
\* and a null title_id; and every other section of the document is extracted
\* exactly as it is when that label is well-formed.
C8_UnparseableLabel ==
  extract_pc = "extracted" =>
    /\ Len(emitted) = Len(written)
    /\ \A i \in 1..Len(written) :
         Unparseable(written[i].label) =>
           /\ parse_label(written[i].label) = NoLabel
           /\ parse_label(emitted[i].section_label) = NoLabel
           /\ EmittedUnparsed(emitted[i], i)
           /\ OthersUnaffected(i)

\* A document whose first section has an unparseable label and whose second
\* section has a well-formed one has been split: both are emitted, the first
\* without a number, the second with its number and title_id.
C8_Witness ==
  /\ extract_pc = "extracted"
  /\ Len(written) = 2
  /\ Truthy(written[1].label) /\ Unparseable(written[1].label)
  /\ ~Unparseable(written[2].label)
  /\ Len(emitted) = 2
  /\ emitted[1].section_number = None
  /\ emitted[2].section_number # None
  /\ emitted[2].title_id = <<"1">>

\* The positions of the label-anchor markers of the document.
MarkerPositions == {i \in 1..Len(html_text) : IsSectionStart(html_text[i])}

\* The position of the k-th marker of the document.
MarkerAt(k) ==
  CHOOSE i \in MarkerPositions : Cardinality({j \in MarkerPositions : j <= i}) = k

\* C25: extract_sections_from_html returns exactly one section per
\* label-anchor marker, in document order; the i-th section's fragment
\* starts at the i-th marker and holds no other marker, and the fragments
\* put end to end are the document from the first marker to its end, so
\* each fragment ends where the next marker starts and the last at the end
\* of the document; a document with no marker yields no sections.
C25_OneSectionPerMarker ==
  extract_pc = "extracted" =>
    /\ Len(emitted) = Cardinality(MarkerPositions)
    /\ Len(fragments) = Cardinality(MarkerPositions)
    /\ \A k \in 1..Len(fragments) :
          /\ emitted[k].section_id = html_text[MarkerAt(k)].id
          /\ fragments[k] # <<>>
          /\ fragments[k][1] = html_text[MarkerAt(k)]
          /\ \A j \in 2..Len(fragments[k]) : ~IsSectionStart(fragments[k][j])
    /\ MarkerPositions # {} =>
          Concat(fragments) = SubSeq(html_text, MarkerAt(1), Len(html_text))
    /\ MarkerPositions = {} => emitted = <<>>

\* A document of two sections after its title has been split: two
\* fragments, the first from the first marker up to the second, the second
\* from there to the end of the document.
C25_Witness ==
  /\ extract_pc = "extracted"
  /\ Cardinality(MarkerPositions) = MaxSections
  /\ MarkerAt(1) > 1
  /\ Len(emitted) = MaxSections
  /\ fragments[1] = SubSeq(html_text, MarkerAt(1), MarkerAt(2) - 1)
  /\ fragments[MaxSections]
       = SubSeq(html_text, MarkerAt(MaxSections), Len(html_text))
  /\ Len(fragments[1]) > 3
  /\ emitted[1].section_id # emitted[2].section_id

(***************************************************************************)
(* Properties of the crawler                                               *)
(***************************************************************************)

\* The iterations of the run that fetched, with or without success.
Fetches == {k \in 1..Len(crawl_log) : crawl_log[k].outcome # "skipped"}

\* The URL of an iteration without its fragment.
Defragmented(k) == [crawl_log[k].url EXCEPT !.fragment = ""]

\* No URL is fetched twice; the URLs fetched because a link named them never
\* differ in the fragment alone; a URL whose fetch failed is in seen.
CrawlSafe ==
  /\ \A j, k \in Fetches : j # k => crawl_log[j].url # crawl_log[k].url
  /\ \A j, k \in Fetches \ {1} : j # k => Defragmented(j) # Defragmented(k)
  /\ \A k \in Fetches : crawl_log[k].url \in crawl_seen

\* A failed fetch ends its iteration only: the URL is added to seen, the
\* rest of the queue is kept and the loop goes on.
FailureContinues ==
  (crawl_log' # crawl_log /\ crawl_log'[Len(crawl_log')].outcome = "failed") =>
    /\ crawl_seen' = crawl_seen \cup {Head(crawl_queue)}
    /\ crawl_queue' = Tail(crawl_queue)
    /\ crawl_pc' = "crawling"

\* C30: during one crawl run no URL is fetched more than once, even when it
\* was enqueued several times before first being dequeued, and links that
\* differ only in their fragment are treated as the same URL; a fetch that
\* fails with a URL error marks the URL as seen and the crawl continues with
\* the rest of the queue; on a finite link graph the queue eventually
\* empties and the crawl terminates.
C30_CrawlFetchesOnceAndEnds ==
  /\ []CrawlSafe
  /\ [][FailureContinues]_vars
  /\ (crawl_pc = "crawling") ~> (crawl_pc = "done" /\ crawl_queue = <<>>)

\* A finished run from titles.htm in which a.htm was enqueued twice, fetched
\* once and skipped once, a fetch failed and a later one was saved.
C30_Witness ==
  /\ crawl_pc = "done"
  /\ \E f, s, g \in 1..Len(crawl_log) :
        /\ f < s /\ f < g
        /\ crawl_log[f].url = PubUrl("a.htm", "")
        /\ crawl_log[f].outcome = "failed"
        /\ crawl_log[s].url = PubUrl("a.htm", "")
        /\ crawl_log[s].outcome = "skipped"
        /\ crawl_log[g].url = PubUrl("b.htm", "")
        /\ crawl_log[g].outcome = "saved"

(***************************************************************************)
(* Properties of the identifier parser                                     *)
(***************************************************************************)

\* The number of the segment of kind tag among the segments the identifier
\* was built from, None when it has no such segment.
NumberOf(tag) ==
  LET segs == ident_segments.segs
  IN  IF \E i \in 1..Len(segs) : segs[i].tag = tag
      THEN segs[CHOOSE i \in 1..Len(segs) : segs[i].tag = tag].num
      ELSE None

\* C26: parse_identifier on a path "/us/usc/<segments>" sets title from the
\* "t<N>" segment, chapter from the "ch<M>" segment and section from the
\* "s<K>" segment, each only from a segment of its own kind: a component
\* with no segment of its kind is None, the segments of other kinds
\* (subtitle "st..", subchapter "sch..", part "pt..") set none of the three,
\* and an identifier not under "/us/usc/" yields (None, None, None).
C26_OwnSegmentOnly ==
  ident_pc = "parsed" =>
    IF ident_segments.prefix = UscPrefix
    THEN /\ ident_nums.title = NumberOf(<<"t">>)
         /\ ident_nums.chapter = NumberOf(<<"c", "h">>)
         /\ ident_nums.section = NumberOf(<<"s">>)
    ELSE ident_nums = NoIdentifier

(***************************************************************************)
(* Properties of the USC front end                                         *)
(***************************************************************************)

\* C6: when section elements of one run resolve to the same slug, the one
\* section retained takes all its fields from the last of them: its text
\* blocks and the heading, chapter_id and parent_level_id of its SQL row, in
\* the collections main builds and in the files written from them.
C6_LastElementWins ==
  \A slug \in DOMAIN last_element :
    /\ sections_by_slug[slug] = last_element[slug].blocks
    /\ \A i \in 1..Len(section_rows) :
         section_rows[i].slug = slug =>
           /\ section_rows[i].heading = last_element[slug].row.heading
           /\ section_rows[i].chapter_id = last_element[slug].row.chapter_id
           /\ section_rows[i].parent_level_id = last_element[slug].row.parent_level_id
    /\ usc_pc = "done" =>
         /\ usc_json[slug].blocks = JsonBlocks(last_element[slug].blocks)
         /\ \A i \in 1..Len(usc_documents) :
              usc_documents[i].slug = slug =>
                /\ usc_documents[i].title = last_element[slug].row.heading
                /\ usc_documents[i].parent_id = last_element[slug].row.parent_level_id

====
